---- MODULE Spec2Model ----
(***************************************************************************)
(* SCTP (Simple Compact Transaction Protocol) codec kernel.                *)
(*                                                                         *)
(* Encoder: src/unnamed/part_002 (encoder.c).                              *)
(* Decoder, push-only variant on a global instance: src/decoder.c.        *)
(* Decoder, instance variant with the pull model (sctp_decoder_next) and   *)
(* a push model built on it: the decoder.c listing that follows the API    *)
(* text in src/api_reference.md (lines 125-446).                           *)
(*                                                                         *)
(* Representation of C integers.  A 64-bit or size_t quantity is the set  *)
(* of the positions of its 1 bits (bit 0 is the least significant), so     *)
(* that 64-bit shifts, masks and wrap-around are computed exactly.  Bytes, *)
(* buffer offsets and buffer lengths are natural numbers.                  *)
(***************************************************************************)
EXTENDS Integers, Sequences, FiniteSets, TLC

VARIABLES
    enc,      \* the global encoder (struct sctp_encoder) and its abort status
    added,    \* the caller's record of the fields it added (test harness)
    dec,      \* the decoder instance (struct sctp_decoder)
    run,      \* the driver of the decoder: variant, control point, results
    leb       \* the LEB128 codec exercised on its own

vars == <<enc, added, dec, run, leb>>

----------------------------------------------------------------------------
(* Widths and wire constants *)

W64 == 64
SizeBits == 32
SCTP_META_SHIFT == 4
SCTP_VECTOR_LARGE_FLAG == 15

SCTP_TYPE_INT8 == 0
SCTP_TYPE_UINT8 == 1
SCTP_TYPE_INT16 == 2
SCTP_TYPE_UINT16 == 3
SCTP_TYPE_INT32 == 4
SCTP_TYPE_UINT32 == 5
SCTP_TYPE_INT64 == 6
SCTP_TYPE_UINT64 == 7
SCTP_TYPE_ULEB128 == 8
SCTP_TYPE_SLEB128 == 9
SCTP_TYPE_FLOAT32 == 10
SCTP_TYPE_FLOAT64 == 11
SCTP_TYPE_SHORT == 12
SCTP_TYPE_VECTOR == 13
SCTP_TYPE_EOF == 15

----------------------------------------------------------------------------
(* Bit-level arithmetic *)

Pow2(n) == 2 ^ n

\* The bits of a natural number below 2^width.
BitsOfNat(n, width) == {i \in 0..(width - 1) : (n \div Pow2(i)) % 2 = 1}

\* The natural number with the bits S (S within 0..30).
RECURSIVE NatOfBits(_)
NatOfBits(S) ==
    IF S = {} THEN 0
    ELSE LET i == CHOOSE x \in S : TRUE IN Pow2(i) + NatOfBits(S \ {i})

\* value & 0x7F
Low7(v) == NatOfBits({i \in v : i < 7})

\* value >>= 7 on a uint64_t
ShrU7(v) == {i - 7 : i \in {j \in v : j >= 7}}

\* value >>= 7 on an int64_t (arithmetic shift, as clang compiles it)
ShrS7(v) == ShrU7(v) \cup (IF (W64 - 1) \in v THEN (W64 - 7)..(W64 - 1) ELSE {})

\* (x) << shift in 64 bits: bits shifted past bit 63 are lost
\* Variant: the group taken as it is, not shifted.
Shl64Unshifted(S, shift) == S

Shl64(S, shift) == {i + shift : i \in {j \in S : j + shift < W64}}

AllOnes64 == 0..(W64 - 1)

\* (size_t)x on the wasm32 build: the low SizeBits bits
ToSizeT(v) == {i \in v : i < SizeBits}

\* Byte k (0-based) of the little-endian memory image of a value.
ByteOfValue(v, k) == NatOfBits({i - 8 * k : i \in {j \in v : j \div 8 = k}})

\* The first n bytes of the little-endian memory image of a value (memcpy
\* from &value on the little-endian wasm32 target).
BytesOfValue(v, n) == [k \in 1..n |-> ByteOfValue(v, k - 1)]

\* The value whose little-endian memory image is the byte sequence bs.
ValueOfBytes(bs) ==
    UNION {{8 * (k - 1) + i : i \in BitsOfNat(bs[k], 8)} : k \in 1..Len(bs)}

----------------------------------------------------------------------------
(* LEB128 encoding: the byte sequence the encoder hands, byte by byte, to *)
(* _sctp_encoder_write_byte.                                              *)

\* Variant: the unsigned writer going on while bit 6 of the group is set, as
\* the signed writer does.
RECURSIVE WriteUlebSignedStop(_)
WriteUlebSignedStop(value) ==
    LET byte == Low7(value)
        rest == ShrU7(value)
    IN  IF rest # {} \/ (byte \div 64) % 2 = 1
        THEN <<byte + 128>> \o WriteUlebSignedStop(rest)
        ELSE <<byte>>

RECURSIVE _sctp_encoder_write_uleb128(_)
_sctp_encoder_write_uleb128(value) ==
    LET byte == Low7(value)
        rest == ShrU7(value)
    IN  IF rest # {}
        THEN <<byte + 128>> \o _sctp_encoder_write_uleb128(rest)
        ELSE <<byte>>

RECURSIVE _sctp_encoder_write_sleb128(_)
_sctp_encoder_write_sleb128(value) ==
    LET byte == Low7(value)
        rest == ShrS7(value)
        bit6 == (byte \div 64) % 2 = 1
        more == ~((rest = {} /\ ~bit6) \/ (rest = AllOnes64 /\ bit6))
    IN  IF more
        THEN <<byte + 128>> \o _sctp_encoder_write_sleb128(rest)
        ELSE <<byte>>

----------------------------------------------------------------------------
(* Stream reader primitives.  A read result is a record                   *)
(*   st    "ok", or the failure: "Truncated", "Overflow", "UnknownType"   *)
(*   pos   the decoder position afterwards                                *)
(*   value the value read (LEB128) / off the offset of the data (raw)     *)

\* Variant: the overflow test made on the shift before it is advanced.
RECURSIVE ReadUlebLoopLateCheck(_, _, _, _, _)
ReadUlebLoopLateCheck(data, size, pos, result, shift) ==
    IF pos >= size
    THEN [st |-> "Truncated", pos |-> pos, value |-> result]
    ELSE LET byte == data[pos + 1]
             r2 == result \cup Shl64(BitsOfNat(byte % 128, 7), shift)
         IN  IF byte < 128
             THEN [st |-> "ok", pos |-> pos + 1, value |-> r2]
             ELSE IF shift >= W64
                  THEN [st |-> "Overflow", pos |-> pos + 1, value |-> r2]
                  ELSE ReadUlebLoopLateCheck(data, size, pos + 1, r2, shift + 7)

\* _sctp_decoder_read_uleb128: the loop from a given position, accumulated
\* result and shift.
RECURSIVE ReadUlebLoop(_, _, _, _, _)
ReadUlebLoop(data, size, pos, result, shift) ==
    IF pos >= size
    THEN [st |-> "Truncated", pos |-> pos, value |-> result]
    ELSE LET byte == data[pos + 1]
             r2 == result \cup Shl64(BitsOfNat(byte % 128, 7), shift)
         IN  IF byte < 128
             THEN [st |-> "ok", pos |-> pos + 1, value |-> r2]
             ELSE IF shift + 7 >= W64
                  THEN [st |-> "Overflow", pos |-> pos + 1, value |-> r2]
                  ELSE ReadUlebLoop(data, size, pos + 1, r2, shift + 7)

_sctp_decoder_read_uleb128(data, size, pos) ==
    ReadUlebLoop(data, size, pos, {}, 0)

\* Variant: the signed reader without the sign extension of the last group.
RECURSIVE ReadSlebLoopNoSign(_, _, _, _, _)
ReadSlebLoopNoSign(data, size, pos, result, shift) ==
    IF pos >= size
    THEN [st |-> "Truncated", pos |-> pos, value |-> result]
    ELSE LET byte == data[pos + 1]
             r2 == result \cup Shl64(BitsOfNat(byte % 128, 7), shift)
         IN  IF byte < 128
             THEN [st |-> "ok", pos |-> pos + 1, value |-> r2]
             ELSE IF shift + 7 >= W64
                  THEN [st |-> "Overflow", pos |-> pos + 1, value |-> r2]
                  ELSE ReadSlebLoopNoSign(data, size, pos + 1, r2, shift + 7)

\* _sctp_decoder_read_sleb128.  The shifts of the signed accumulator are
\* taken as 64-bit two's-complement shifts (wasm i64.shl), the only result
\* the wasm32 build produces.
RECURSIVE ReadSlebLoop(_, _, _, _, _)
ReadSlebLoop(data, size, pos, result, shift) ==
    IF pos >= size
    THEN [st |-> "Truncated", pos |-> pos, value |-> result]
    ELSE LET byte == data[pos + 1]
             r2 == result \cup Shl64(BitsOfNat(byte % 128, 7), shift)
             s2 == shift + 7
             bit6 == (byte \div 64) % 2 = 1
         IN  IF byte < 128
             THEN [st |-> "ok", pos |-> pos + 1,
                   value |-> IF s2 < W64 /\ bit6
                             THEN r2 \cup (s2..(W64 - 1))
                             ELSE r2]
             ELSE IF s2 >= W64
                  THEN [st |-> "Overflow", pos |-> pos + 1, value |-> r2]
                  ELSE ReadSlebLoop(data, size, pos + 1, r2, s2)

_sctp_decoder_read_sleb128(data, size, pos) ==
    ReadSlebLoop(data, size, pos, {}, 0)

\* A size_t holding a small natural number.
SizeOf(n) == BitsOfNat(n, SizeBits - 1)

\* dec->position + size in size_t arithmetic (modulo 2^SizeBits), position
\* below 2^16: the sum is formed on the two 16-bit halves of size.
AddSize(position, size) ==
    LET lo == NatOfBits({i \in size : i < 16}) + position
        hi == NatOfBits({i - 16 : i \in {j \in size : j >= 16}}) + (lo \div 65536)
    IN  BitsOfNat(lo % 65536, 16)
            \cup {i + 16 : i \in BitsOfNat(hi % 65536, SizeBits - 16)}

\* a > n for a size_t a and a natural number n below 2^16
SizeGt(a, n) == (\E i \in a : i >= 16) \/ NatOfBits(a) > n

\* Variant: the bounds test letting the read end one byte past the buffer.
ReadDataOffByOne(d, size) ==
    LET sum == AddSize(d.position, size)
    IN  IF SizeGt(sum, d.size + 1)
        THEN [st |-> "Truncated", off |-> d.position, pos |-> d.position]
        ELSE [st |-> "ok", off |-> d.position, pos |-> NatOfBits(sum)]

\* _sctp_decoder_read_data: st "Truncated" is the abort; otherwise off is the
\* offset of the returned pointer and pos the advanced position.
_sctp_decoder_read_data(d, size) ==
    LET sum == AddSize(d.position, size)
    IN  IF SizeGt(sum, d.size)
        THEN [st |-> "Truncated", off |-> d.position, pos |-> d.position]
        ELSE [st |-> "ok", off |-> d.position, pos |-> NatOfBits(sum)]

----------------------------------------------------------------------------
(* Field dispatch *)

FixedTypes == {SCTP_TYPE_INT8, SCTP_TYPE_UINT8, SCTP_TYPE_INT16, SCTP_TYPE_UINT16,
               SCTP_TYPE_INT32, SCTP_TYPE_UINT32, SCTP_TYPE_INT64, SCTP_TYPE_UINT64,
               SCTP_TYPE_FLOAT32, SCTP_TYPE_FLOAT64}

\* sizeof the C type of a fixed-width field
FixedWidth(type) ==
    CASE type \in {SCTP_TYPE_INT8, SCTP_TYPE_UINT8} -> 1
      [] type \in {SCTP_TYPE_INT16, SCTP_TYPE_UINT16} -> 2
      [] type \in {SCTP_TYPE_INT32, SCTP_TYPE_UINT32, SCTP_TYPE_FLOAT32} -> 4
      [] type \in {SCTP_TYPE_INT64, SCTP_TYPE_UINT64, SCTP_TYPE_FLOAT64} -> 8

\* Variant: the type taken from three bits of the header only.
HeaderTypeNarrowMask(header) == header % 8

\* Variant: the header compared as a whole, its metadata bits not masked off.
HeaderTypeUnmasked(header) == header

\* header & SCTP_TYPE_MASK
HeaderType(header) == header % 16

\* Variant: the meta bits masked but left in place.
HeaderMetaUnshifted(header) == (header \div Pow2(SCTP_META_SHIFT)) * Pow2(SCTP_META_SHIFT)

\* Variant: the low nibble of the header taken as the metadata.
HeaderMetaLowNibble(header) == header % 16

\* (header & SCTP_META_MASK) >> SCTP_META_SHIFT
HeaderMeta(header) == (header \div Pow2(SCTP_META_SHIFT)) % 16

\* Pointers: a base object and an offset into it.
NullPtr == [base |-> "null", off |-> 0]
DataPtr(off) == [base |-> "data", off |-> off]

\* The bytes of a pointer into the source buffer, which lies at address
\* addr (below 2^(SizeBits - 1)): the address of data + off.
PtrBits(addr, off) == BitsOfNat(addr + off, SizeBits - 1)

\* as_ptr of an sctp_value_t: the pointer that the first sizeof(void *)
\* bytes of the union hold, for a decoder whose buffer of `size` bytes lies
\* at address addr.
AsPtr(bits, addr, size) ==
    LET low == {i \in bits : i < SizeBits}
    IN  IF low = {} THEN NullPtr
        ELSE IF \E off \in 0..size : low = PtrBits(addr, off)
        THEN DataPtr(CHOOSE off \in 0..size : low = PtrBits(addr, off))
        ELSE [base |-> "elsewhere", off |-> 0]

\* The bytes of the source buffer in [off, off + n), as far as they exist.
Slice(data, off, n) ==
    [k \in 1..(IF off + n <= Len(data) THEN n
               ELSE IF off <= Len(data) THEN Len(data) - off ELSE 0)
        |-> data[off + k]]

\* Assignment to a member of width n bytes of the sctp_value_t union: the
\* other bytes of the union keep their content.
SetMember(bits, n, v) == {i \in bits : i >= 8 * n} \cup {i \in v : i < 8 * n}

\* Variant: the exhausted buffer reported without storing the type.
NextAtEndKeepsType(d) == [d EXCEPT !.last_size = SizeOf(0)]

\* sctp_decoder_next once the buffer is exhausted: what it stores before it
\* returns SCTP_TYPE_EOF.
NextAtEnd(d) == [d EXCEPT !.last_type = SCTP_TYPE_EOF, !.last_size = SizeOf(0)]

\* sctp_decoder_next (instance variant).  The result holds the decoder
\* afterwards (dec), ret the returned type, st "ok" or the kind of the abort
\* (then nothing is returned), reads the buffer offsets the call read, and
\* handed the ranges of the buffer it exposed by pointer.
sctp_decoder_next(d) ==
    IF d.position >= d.size
    THEN [dec |-> NextAtEnd(d),
          ret |-> SCTP_TYPE_EOF, st |-> "ok", reads |-> {}, handed |-> {}]
    ELSE
    LET header == d.data[d.position + 1]
        type == HeaderType(header)
        meta == HeaderMeta(header)
        hd == {d.position}
        d1 == [d EXCEPT !.position = d.position + 1, !.last_type = type]
    IN  CASE type \in FixedTypes ->
               LET w == FixedWidth(type)
                   d2 == [d1 EXCEPT !.last_size = SizeOf(w)]
                   r == _sctp_decoder_read_data(d2, SizeOf(w))
               IN  IF r.st # "ok"
                   THEN [dec |-> d2, ret |-> type, st |-> r.st,
                         reads |-> hd, handed |-> {}]
                   ELSE [dec |-> [d2 EXCEPT
                                    !.position = r.pos,
                                    !.last_value.bits =
                                        SetMember(@, w, ValueOfBytes(Slice(d.data, r.off, w)))],
                         ret |-> type, st |-> "ok",
                         reads |-> hd \cup (r.off..(r.off + w - 1)), handed |-> {}]
          [] type \in {SCTP_TYPE_ULEB128, SCTP_TYPE_SLEB128} ->
               LET r == IF type = SCTP_TYPE_ULEB128
                        THEN _sctp_decoder_read_uleb128(d.data, d.size, d1.position)
                        ELSE _sctp_decoder_read_sleb128(d.data, d.size, d1.position)
                   rd == hd \cup {i \in d1.position..(r.pos - 1) : TRUE}
               IN  IF r.st # "ok"
                   THEN [dec |-> [d1 EXCEPT !.position = r.pos], ret |-> type,
                         st |-> r.st, reads |-> rd, handed |-> {}]
                   ELSE [dec |-> [d1 EXCEPT !.position = r.pos,
                                            !.last_value.bits = r.value,
                                            !.last_size = SizeOf(8)],
                         ret |-> type, st |-> "ok", reads |-> rd, handed |-> {}]
          [] type = SCTP_TYPE_SHORT ->
               [dec |-> [d1 EXCEPT !.last_value.bits = SetMember(@, 1, BitsOfNat(meta, 8)),
                                   !.last_size = SizeOf(1)],
                ret |-> type, st |-> "ok", reads |-> hd, handed |-> {}]
          [] type = SCTP_TYPE_VECTOR ->
               LET lr == IF meta = SCTP_VECTOR_LARGE_FLAG
                         THEN _sctp_decoder_read_uleb128(d.data, d.size, d1.position)
                         ELSE [st |-> "ok", pos |-> d1.position, value |-> SizeOf(meta)]
                   rd == hd \cup {i \in d1.position..(lr.pos - 1) : TRUE}
                   d2 == [d1 EXCEPT !.position = lr.pos]
               IN  IF lr.st # "ok"
                   THEN [dec |-> d2, ret |-> type, st |-> lr.st,
                         reads |-> rd, handed |-> {}]
                   ELSE LET d3 == [d2 EXCEPT !.last_size = ToSizeT(lr.value)]
                            r == _sctp_decoder_read_data(d3, d3.last_size)
                        IN  IF r.st # "ok"
                            THEN [dec |-> d3, ret |-> type, st |-> r.st,
                                  reads |-> rd, handed |-> {}]
                            ELSE [dec |-> [d3 EXCEPT
                                             !.position = r.pos,
                                             !.last_value.bits =
                                                 SetMember(@, SizeBits \div 8,
                                                           PtrBits(d.addr, r.off))],
                                  ret |-> type, st |-> "ok", reads |-> rd,
                                  handed |-> {[off |-> r.off, size |-> d3.last_size]}]
          [] type = SCTP_TYPE_EOF ->
               [dec |-> [d1 EXCEPT !.last_size = SizeOf(0)],
                ret |-> type, st |-> "ok", reads |-> hd, handed |-> {}]
          [] OTHER ->
               [dec |-> d1, ret |-> type, st |-> "UnknownType",
                reads |-> hd, handed |-> {}]

----------------------------------------------------------------------------
(* Push model.  A call of __sctp_data_handler is recorded as               *)
(*   [type, ptr, size, bytes]: bytes are the bytes of the pointed object   *)
(*   that exist within `size` bytes from ptr.                              *)
(* The result of a run is a record                                         *)
(*   pc      "done" (returned), "aborted" (lea_abort trapped) or           *)
(*           "diverges": the loop came back to a header offset it had      *)
(*           decoded before, and since the position after a field is a     *)
(*           function of the buffer and of the header offset, it repeats   *)
(*           the same fields for ever                                      *)
(*   ret     <<r>> when the run returned r, else << >>                     *)
(*   calls   the handler calls made, in order                              *)
(*   headers the offsets read as field headers, in order                   *)

\* The number of bytes of [off, off + size) an observer can look at.
Visible(size, limit) == IF \E i \in size : i >= 16 THEN limit ELSE NatOfBits(size)

HandlerCall(type, ptr, size, bytes) ==
    [type |-> type, ptr |-> ptr, size |-> size, bytes |-> bytes]

EofCall == HandlerCall(SCTP_TYPE_EOF, NullPtr, SizeOf(0), <<>>)

\* The arguments sctp_decoder_run (instance variant) passes for the field
\* that sctp_decoder_next has just stored.
RunCallOf(d) ==
    IF d.last_type = SCTP_TYPE_VECTOR
    THEN LET ptr == AsPtr(d.last_value.bits, d.addr, d.size)
         IN  HandlerCall(d.last_type, ptr, d.last_size,
                         Slice(d.data, ptr.off, Visible(d.last_size, d.size)))
    ELSE HandlerCall(d.last_type, [base |-> "last_value", off |-> 0], d.last_size,
                     BytesOfValue(d.last_value.bits, NatOfBits(d.last_size)))

\* sctp_decoder_run of the instance variant: the loop over sctp_decoder_next.
RECURSIVE RunLoop(_, _, _, _, _)
RunLoop(d, calls, headers, reads, handed) ==
    IF d.position < d.size /\ d.position \in {headers[i] : i \in 1..Len(headers)}
    THEN [pc |-> "diverges", err |-> "none", ret |-> <<>>, dec |-> d, calls |-> calls,
          headers |-> Append(headers, d.position), reads |-> reads, handed |-> handed]
    ELSE
    LET r == sctp_decoder_next(d)
        hs == IF d.position < d.size THEN Append(headers, d.position) ELSE headers
    IN  IF r.st # "ok"
        THEN [pc |-> "aborted", err |-> r.st, ret |-> <<>>, dec |-> r.dec,
              calls |-> calls, headers |-> hs, reads |-> reads \cup r.reads,
              handed |-> handed]
        ELSE IF r.ret = SCTP_TYPE_EOF
        THEN [pc |-> "done", err |-> "none", ret |-> <<0>>, dec |-> r.dec,
              calls |-> Append(calls, EofCall), headers |-> hs,
              reads |-> reads \cup r.reads, handed |-> handed]
        ELSE RunLoop(r.dec, Append(calls, RunCallOf(r.dec)), hs,
                     reads \cup r.reads, handed \cup r.handed)

sctp_decoder_run(d) == RunLoop(d, <<>>, <<>>, {}, {})

\* sctp_decoder_run of the variant on the global decoder (src/decoder.c):
\* its own dispatch loop, which hands the handler pointers into the buffer.
RECURSIVE RunGLoop(_, _, _, _, _)
RunGLoop(d, calls, headers, reads, handed) ==
    IF ~(d.position < d.size)
    THEN [pc |-> "done", err |-> "none", ret |-> <<0>>, dec |-> d, calls |-> calls,
          headers |-> headers, reads |-> reads, handed |-> handed]
    ELSE IF d.position \in {headers[i] : i \in 1..Len(headers)}
    THEN [pc |-> "diverges", err |-> "none", ret |-> <<>>, dec |-> d, calls |-> calls,
          headers |-> Append(headers, d.position), reads |-> reads, handed |-> handed]
    ELSE
    LET header == d.data[d.position + 1]
        type == HeaderType(header)
        meta == HeaderMeta(header)
        hs == Append(headers, d.position)
        rd0 == reads \cup {d.position}
        d1 == [d EXCEPT !.position = d.position + 1]
        Abort(dd, kind, rd) ==
            [pc |-> "aborted", err |-> kind, ret |-> <<>>, dec |-> dd, calls |-> calls,
             headers |-> hs, reads |-> rd, handed |-> handed]
    IN  CASE type = SCTP_TYPE_EOF ->
               [pc |-> "done", err |-> "none", ret |-> <<0>>, dec |-> d1,
                calls |-> Append(calls, EofCall), headers |-> hs, reads |-> rd0,
                handed |-> handed]
          [] type \in FixedTypes ->
               LET size == SizeOf(FixedWidth(type))
                   r == _sctp_decoder_read_data(d1, size)
               IN  IF r.st # "ok" THEN Abort(d1, r.st, rd0)
                   ELSE RunGLoop([d1 EXCEPT !.position = r.pos],
                            Append(calls, HandlerCall(type, DataPtr(r.off), size,
                                       Slice(d.data, r.off, FixedWidth(type)))),
                            hs, rd0, handed \cup {[off |-> r.off, size |-> size]})
          [] type \in {SCTP_TYPE_ULEB128, SCTP_TYPE_SLEB128} ->
               LET r == IF type = SCTP_TYPE_ULEB128
                        THEN _sctp_decoder_read_uleb128(d.data, d.size, d1.position)
                        ELSE _sctp_decoder_read_sleb128(d.data, d.size, d1.position)
                   rd == rd0 \cup {i \in d1.position..(r.pos - 1) : TRUE}
               IN  IF r.st # "ok" THEN Abort([d1 EXCEPT !.position = r.pos], r.st, rd)
                   ELSE RunGLoop([d1 EXCEPT !.position = r.pos],
                            Append(calls, HandlerCall(type, [base |-> "value", off |-> 0],
                                       SizeOf(8), BytesOfValue(r.value, 8))),
                            hs, rd, handed)
          [] type = SCTP_TYPE_SHORT ->
               RunGLoop(d1, Append(calls, HandlerCall(type, [base |-> "meta", off |-> 0],
                                       SizeOf(1), <<meta>>)),
                        hs, rd0, handed)
          [] type = SCTP_TYPE_VECTOR ->
               LET lr == IF meta = SCTP_VECTOR_LARGE_FLAG
                         THEN _sctp_decoder_read_uleb128(d.data, d.size, d1.position)
                         ELSE [st |-> "ok", pos |-> d1.position, value |-> SizeOf(meta)]
                   rd == rd0 \cup {i \in d1.position..(lr.pos - 1) : TRUE}
                   d2 == [d1 EXCEPT !.position = lr.pos]
               IN  IF lr.st # "ok" THEN Abort(d2, lr.st, rd)
                   ELSE LET size == ToSizeT(lr.value)
                            r == _sctp_decoder_read_data(d2, size)
                        IN  IF r.st # "ok" THEN Abort(d2, r.st, rd)
                            ELSE RunGLoop([d2 EXCEPT !.position = r.pos],
                                     Append(calls, HandlerCall(type, DataPtr(r.off), size,
                                                Slice(d.data, r.off, Visible(size, d.size)))),
                                     hs, rd, handed \cup {[off |-> r.off, size |-> size]})
          [] OTHER -> Abort(d1, "UnknownType", rd0)

sctp_decoder_run_g(d) == RunGLoop(d, <<>>, <<>>, {}, {})

----------------------------------------------------------------------------
(* Stream writer.  The encoder record holds buffer (capacity cells; a cell *)
(* that was never written holds -1), capacity, position, status ("ok", or *)
(* "aborted" once lea_abort has trapped) with the kind of the abort in    *)
(* err, span (offset and length of the area reserved by the last           *)
(* sctp_encoder_add_vector) and overrun (a reservation passed the          *)
(* capacity check although position + length exceeds the capacity).        *)

\* _sctp_encoder_ensure_capacity: TRUE when it does not abort.
_sctp_encoder_ensure_capacity(e, additional_bytes) ==
    ~SizeGt(AddSize(e.position, additional_bytes), e.capacity)

EncAbort(e, kind) == [e EXCEPT !.status = "aborted", !.err = kind]

_sctp_encoder_write_byte(e, byte) ==
    IF e.status # "ok" THEN e
    ELSE IF ~_sctp_encoder_ensure_capacity(e, SizeOf(1))
    THEN EncAbort(e, "CapacityExceeded")
    ELSE [e EXCEPT !.buffer[e.position + 1] = byte, !.position = e.position + 1]

\* Variant: type and metadata in each other's nibble.
WriteHeaderSwapped(e, type, meta) ==
    _sctp_encoder_write_byte(e, (meta + type * Pow2(SCTP_META_SHIFT)) % 256)

\* (uint8_t)type | (meta << SCTP_META_SHIFT), truncated to uint8_t
_sctp_encoder_write_header(e, type, meta) ==
    _sctp_encoder_write_byte(e, (type + meta * Pow2(SCTP_META_SHIFT)) % 256)

\* Variant: the bytes are copied to the start of the buffer, not to the
\* write position.
WriteDataAtStart(e, data) ==
    IF e.status # "ok" THEN e
    ELSE IF ~_sctp_encoder_ensure_capacity(e, SizeOf(Len(data)))
    THEN EncAbort(e, "CapacityExceeded")
    ELSE [e EXCEPT !.buffer = [i \in 1..e.capacity |->
                                 IF i <= Len(data) THEN data[i] ELSE @[i]],
                   !.position = e.position + Len(data)]

\* memcpy(enc->buffer + enc->position, data, size); position += size
_sctp_encoder_write_data(e, data) ==
    IF e.status # "ok" THEN e
    ELSE IF ~_sctp_encoder_ensure_capacity(e, SizeOf(Len(data)))
    THEN EncAbort(e, "CapacityExceeded")
    ELSE [e EXCEPT !.buffer = [i \in 1..e.capacity |->
                                 IF i > e.position /\ i <= e.position + Len(data)
                                 THEN data[i - e.position] ELSE @[i]],
                   !.position = e.position + Len(data)]

\* The LEB128 writers call _sctp_encoder_write_byte for one byte after the
\* other.
RECURSIVE WriteBytes(_, _)
WriteBytes(e, bs) ==
    IF bs = <<>> THEN e
    ELSE WriteBytes(_sctp_encoder_write_byte(e, Head(bs)), Tail(bs))

\* length < SCTP_VECTOR_LARGE_FLAG for a size_t length
SizeLt(a, n) == ~SizeGt(a, n - 1)

sctp_encoder_add_vector(e, length) ==
    LET e1 == IF SizeLt(length, SCTP_VECTOR_LARGE_FLAG)
              THEN _sctp_encoder_write_header(e, SCTP_TYPE_VECTOR, NatOfBits(length))
              ELSE WriteBytes(_sctp_encoder_write_header(e, SCTP_TYPE_VECTOR,
                                                         SCTP_VECTOR_LARGE_FLAG),
                              _sctp_encoder_write_uleb128(length))
    IN  IF e1.status # "ok" THEN e1
        ELSE IF ~_sctp_encoder_ensure_capacity(e1, length)
        THEN EncAbort(e1, "CapacityExceeded")
        ELSE [e1 EXCEPT !.position = NatOfBits(AddSize(e1.position, length)),
                        !.span = [off |-> e1.position, len |-> length],
                        !.overrun = @ \/ SizeGt(length, e1.capacity - e1.position)]

\* Variant: the bound of the short value tested one too high.
AddShortLooseBound(e, value) ==
    IF value > 16 THEN EncAbort(e, "InvalidArgument")
    ELSE _sctp_encoder_write_header(e, SCTP_TYPE_SHORT, value)

sctp_encoder_add_short(e, value) ==
    IF value > 15 THEN EncAbort(e, "InvalidArgument")
    ELSE _sctp_encoder_write_header(e, SCTP_TYPE_SHORT, value)

\* Variant: the width of the value put into the metadata of the header.
AddFixedWidthInMeta(e, type, value) ==
    _sctp_encoder_write_data(_sctp_encoder_write_header(e, type, FixedWidth(type)),
                             BytesOfValue(value, FixedWidth(type)))

\* DEFINE_ENCODER_ADD_TYPE: value is the bit pattern of the C value.
sctp_encoder_add_fixed(e, type, value) ==
    _sctp_encoder_write_data(_sctp_encoder_write_header(e, type, 0),
                             BytesOfValue(value, FixedWidth(type)))

sctp_encoder_add_uleb128(e, value) ==
    WriteBytes(_sctp_encoder_write_header(e, SCTP_TYPE_ULEB128, 0),
               _sctp_encoder_write_uleb128(value))

sctp_encoder_add_sleb128(e, value) ==
    WriteBytes(_sctp_encoder_write_header(e, SCTP_TYPE_SLEB128, 0),
               _sctp_encoder_write_sleb128(value))

sctp_encoder_add_eof(e) == _sctp_encoder_write_header(e, SCTP_TYPE_EOF, 0)

\* sctp_encoder_init
sctp_encoder_init(capacity) ==
    [buffer |-> [i \in 1..capacity |-> -1], capacity |-> capacity, position |-> 0,
     status |-> "ok", err |-> "none",
     span |-> [off |-> 0, len |-> SizeOf(0)], overrun |-> FALSE]

\* sctp_encoder_data() / sctp_encoder_size(): the bytes written so far
EncoderOutput(e) == SubSeq(e.buffer, 1, e.position)

----------------------------------------------------------------------------
(* The LEB128 codec on its own.                                           *)
(*                                                                         *)
(* leb.stage: "value"     a 64-bit value has been drawn                    *)
(*            "encoded"   the value was written (leb.wire)                 *)
(*            "readback"  the written bytes were read again (leb.back)     *)
(*            "wire"      a byte string has been drawn                     *)
(*            "decoded"   the byte string was read (leb.value, leb.st)     *)
(*            "reencoded" the decoded value was written again (leb.again)  *)

MaxCont == 11

\* 64-bit values with at most two 1 bits, and their complements: 0, -1, the
\* powers of two, INT64_MIN, INT64_MAX, UINT64_MAX, every bit length.
LebValues ==
    LET few == {{}} \cup {{i, j} : i \in AllOnes64, j \in AllOnes64}
    IN  few \cup {AllOnes64 \ S : S \in few}

ContBytes == {128, 255, 193}
TermBytes == {0, 1, 2, 63, 64, 127}

Repeat(b, k) == [i \in 1..k |-> b]

\* Byte strings: k equal continuation bytes, then nothing or a terminating
\* byte, then nothing or one more continuation byte.
LebWires ==
    {Repeat(c, k) \o t \o x :
        c \in ContBytes, k \in 0..MaxCont,
        t \in {<<>>} \cup {<<b>> : b \in TermBytes},
        x \in {<<>>, <<128>>}}

\* The bytes that follow the encoder's output in the buffer read back.
Trailer == <<129, 0>>

LebIdle == [stage |-> "idle", signed |-> FALSE, value |-> {}, wire |-> <<>>,
            st |-> "none", used |-> 0, back |-> {}, again |-> <<>>]


LebWrite(signed, value) ==
    IF signed THEN _sctp_encoder_write_sleb128(value)
    ELSE _sctp_encoder_write_uleb128(value)

LebRead(signed, data) ==
    IF signed THEN _sctp_decoder_read_sleb128(data, Len(data), 0)
    ELSE _sctp_decoder_read_uleb128(data, Len(data), 0)

\* The encoder writes a drawn value.
LebEncode ==
    /\ leb.stage = "value"
    /\ \E signed \in BOOLEAN :
          leb' = [leb EXCEPT !.stage = "encoded", !.signed = signed,
                             !.wire = LebWrite(signed, leb.value)]
    /\ UNCHANGED <<enc, added, dec, run>>

\* The decoder reads the written bytes, which further bytes follow.
LebReadBack ==
    /\ leb.stage = "encoded"
    /\ LET r == LebRead(leb.signed, leb.wire \o Trailer)
       IN  leb' = [leb EXCEPT !.stage = "readback", !.st = r.st,
                              !.used = r.pos, !.back = r.value]
    /\ UNCHANGED <<enc, added, dec, run>>

\* The decoder reads a drawn byte string.
LebDecode ==
    /\ leb.stage = "wire"
    /\ \E signed \in BOOLEAN :
          LET r == LebRead(signed, leb.wire)
          IN  leb' = [leb EXCEPT !.stage = "decoded", !.signed = signed,
                                 !.st = r.st, !.used = r.pos, !.value = r.value]
    /\ UNCHANGED <<enc, added, dec, run>>

\* The encoder writes the value the decoder returned.
LebReencode ==
    /\ leb.stage = "decoded"
    /\ leb.st = "ok"
    /\ leb' = [leb EXCEPT !.stage = "reencoded",
                          !.again = LebWrite(leb.signed, leb.value)]
    /\ UNCHANGED <<enc, added, dec, run>>

LebNext == LebEncode \/ LebReadBack \/ LebDecode \/ LebReencode

----------------------------------------------------------------------------
(* Encoder operations and the caller's record of what it added.           *)

Capacity == 24
MaxAdds == 2

EncIdle == sctp_encoder_init(0)

\* A zeroed sctp_value_t (memset): the eight bytes of the union, which all
\* its members share.
ZeroValue == [bits |-> {}]

DecIdle == [data |-> <<>>, addr |-> 0, size |-> 0, position |-> 0,
            last_type |-> SCTP_TYPE_EOF,
            last_value |-> ZeroValue, last_size |-> SizeOf(0),
            is_external_buffer |-> FALSE]

\* run.src    "encoder": the decoder gets the encoder's output;
\*            "bytes": it gets run.input
\* run.mode   "none" no decoder yet, "alloc" the global decoder has its
\*            buffer, not yet filled, "fresh" constructed and filled,
\*            "pull", "run", "run_g" the way it is being consumed
\* run.pc     "ready", or how the consumption ended
\* run.returned  what each sctp_decoder_next call returned and stored
RunIdle == [src |-> "encoder", input |-> <<>>, mode |-> "none", pc |-> "ready",
            err |-> "none", ret |-> <<>>, calls |-> <<>>, headers |-> <<>>,
            reads |-> {}, handed |-> {}, returned |-> <<>>]

\* The bit patterns of the values the caller adds, per fixed-width type.
FixedValues(type) ==
    CASE type = SCTP_TYPE_INT8 -> {BitsOfNat(136, 8)}
      [] type = SCTP_TYPE_UINT8 -> {BitsOfNat(255, 8)}
      [] type = SCTP_TYPE_INT16 -> {BitsOfNat(32769, 16)}
      [] type = SCTP_TYPE_UINT16 -> {BitsOfNat(65000, 16)}
      [] type = SCTP_TYPE_INT32 -> {BitsOfNat(147483648, 31) \cup {31}}
      [] type = SCTP_TYPE_UINT32 -> {0..31}
      [] type = SCTP_TYPE_INT64 -> {{0, 63}}
      [] type = SCTP_TYPE_UINT64 -> {AllOnes64}
      [] type = SCTP_TYPE_FLOAT32 -> {BitsOfNat(1123477881, 31)}
      [] type = SCTP_TYPE_FLOAT64 -> {{50, 62, 63}}

UlebValues == {{7}, AllOnes64}
SlebValues == {AllOnes64 \ {6}, {63}}
ShortValues == {10, 15, 16}
VectorLengths == {SizeOf(0), SizeOf(2), SizeOf(14), SizeOf(15), SizeOf(20),
                  (0..(SizeBits - 1)) \ {0, 2}, (0..(SizeBits - 1)) \ {1, 2}}

\* What the caller writes into a reserved span of n bytes: "hi" into two
\* bytes, else 'h' and 0x0F in turn.
VectorFill(n) == [k \in 1..n |-> IF k % 2 = 1 THEN 104 ELSE IF n = 2 THEN 105 ELSE 15]

\* raw: 0 for a field added by its own call, else the number of the
\* sctp_encoder_add_raw call that brought it in.
Field(type, value, size, bytes) ==
    [type |-> type, value |-> value, size |-> size, bytes |-> bytes, raw |-> 0]

Encoding == enc.status = "ok" /\ run.mode = "none" /\ run.src = "encoder"
MayAdd == Encoding /\ Cardinality({i \in 1..Len(added) : added[i].raw = 0}) < MaxAdds
             /\ \A i \in 1..Len(added) : added[i].type # SCTP_TYPE_EOF

Added(e, f) == IF e.status = "ok" THEN Append(added, f) ELSE added

AddFixed ==
    /\ MayAdd
    /\ \E type \in FixedTypes : \E value \in FixedValues(type) :
          LET e == sctp_encoder_add_fixed(enc, type, value)
          IN  /\ enc' = e
              /\ added' = Added(e, Field(type, value, SizeOf(FixedWidth(type)), <<>>))
    /\ UNCHANGED <<dec, run, leb>>

AddUleb128 ==
    /\ MayAdd
    /\ \E value \in UlebValues :
          LET e == sctp_encoder_add_uleb128(enc, value)
          IN  /\ enc' = e
              /\ added' = Added(e, Field(SCTP_TYPE_ULEB128, value, SizeOf(8), <<>>))
    /\ UNCHANGED <<dec, run, leb>>

AddSleb128 ==
    /\ MayAdd
    /\ \E value \in SlebValues :
          LET e == sctp_encoder_add_sleb128(enc, value)
          IN  /\ enc' = e
              /\ added' = Added(e, Field(SCTP_TYPE_SLEB128, value, SizeOf(8), <<>>))
    /\ UNCHANGED <<dec, run, leb>>

AddShort ==
    /\ MayAdd
    /\ \E value \in ShortValues :
          LET e == sctp_encoder_add_short(enc, value)
          IN  /\ enc' = e
              /\ added' = Added(e, Field(SCTP_TYPE_SHORT, BitsOfNat(value, 8),
                                         SizeOf(1), <<>>))
    /\ UNCHANGED <<dec, run, leb>>

\* sctp_encoder_add_vector: the span is reserved, its bytes are whatever the
\* buffer held.
AddVector ==
    /\ MayAdd
    /\ \E length \in VectorLengths :
          LET e == sctp_encoder_add_vector(enc, length)
          IN  /\ enc' = e
              /\ added' = Added(e, Field(SCTP_TYPE_VECTOR, {}, length,
                                         Slice(e.buffer, e.span.off,
                                               Visible(length, e.capacity))))
    /\ UNCHANGED <<dec, run, leb>>

\* The caller fills the span it got from the last sctp_encoder_add_vector
\* (memcpy through the returned pointer), which lies inside the buffer.
FillVector ==
    /\ Encoding
    /\ added # <<>>
    /\ added[Len(added)].type = SCTP_TYPE_VECTOR
    /\ ~SizeGt(enc.span.len, enc.capacity - enc.span.off)
    /\ enc.span.off + NatOfBits(enc.span.len) = enc.position
    /\ LET n == NatOfBits(enc.span.len)
           bytes == VectorFill(n)
       IN  /\ n > 0
           /\ enc' = [enc EXCEPT !.buffer = [i \in 1..enc.capacity |->
                                   IF i > enc.span.off /\ i <= enc.span.off + n
                                   THEN bytes[i - enc.span.off] ELSE @[i]]]
           /\ added' = [added EXCEPT ![Len(added)].bytes = bytes]
    /\ UNCHANGED <<dec, run, leb>>

\* sctp_encoder_add_raw: the bytes are appended as they are, with no header
\* (declared and documented in sctp.h; used by test_raw_add).
sctp_encoder_add_raw(e, data) == _sctp_encoder_write_data(e, data)

SnippetCapacity == 64

\* One field added to an encoder by the call for its type, a reserved
\* vector span being filled with the field's bytes.  lea_abort does not
\* return: behind an abort no further call is made, and the encoder stays as
\* the aborting call left it.
EncodeField(e, f) ==
    IF e.status # "ok" THEN e
    ELSE
        CASE f.type \in FixedTypes -> sctp_encoder_add_fixed(e, f.type, f.value)
          [] f.type = SCTP_TYPE_ULEB128 -> sctp_encoder_add_uleb128(e, f.value)
          [] f.type = SCTP_TYPE_SLEB128 -> sctp_encoder_add_sleb128(e, f.value)
          [] f.type = SCTP_TYPE_SHORT -> sctp_encoder_add_short(e, NatOfBits(f.value))
          [] f.type = SCTP_TYPE_VECTOR ->
                LET e1 == sctp_encoder_add_vector(e, f.size)
                IN  IF e1.status # "ok" THEN e1
                    ELSE [e1 EXCEPT !.buffer = [i \in 1..e1.capacity |->
                                    IF i > e1.span.off /\ i <= e1.span.off + Len(f.bytes)
                                    THEN f.bytes[i - e1.span.off] ELSE @[i]]]
          [] f.type = SCTP_TYPE_EOF -> sctp_encoder_add_eof(e)

RECURSIVE EncodeAll(_, _)
EncodeAll(e, fs) == IF fs = <<>> THEN e ELSE EncodeAll(EncodeField(e, Head(fs)), Tail(fs))

\* The field sequences encoded apart and appended raw: INT16 42 and SHORT 9
\* (test_raw_add), the vector "hi", ULEB128 128 and INT8 -120.
RawSnippets ==
    {<<Field(SCTP_TYPE_INT16, BitsOfNat(42, 16), SizeOf(2), <<>>),
       Field(SCTP_TYPE_SHORT, BitsOfNat(9, 8), SizeOf(1), <<>>)>>,
     <<Field(SCTP_TYPE_VECTOR, {}, SizeOf(2), VectorFill(2))>>,
     <<Field(SCTP_TYPE_ULEB128, {7}, SizeOf(8), <<>>),
       Field(SCTP_TYPE_INT8, BitsOfNat(136, 8), SizeOf(1), <<>>)>>}

RawCalls == Cardinality({added[i].raw : i \in 1..Len(added)} \ {0})

\* The snippet is encoded by an encoder of its own, and its output is
\* appended to the stream by sctp_encoder_add_raw: one snippet per stream,
\* between the fields added before it and those added after it.
AddRaw ==
    /\ Encoding
    /\ \A i \in 1..Len(added) : added[i].type # SCTP_TYPE_EOF
    /\ RawCalls = 0
    /\ \E B \in RawSnippets :
          LET S == EncoderOutput(EncodeAll(sctp_encoder_init(SnippetCapacity), B))
              e == sctp_encoder_add_raw(enc, S)
          IN  /\ enc' = e
              /\ added' = IF e.status = "ok"
                           THEN added \o [k \in 1..Len(B) |->
                                            [B[k] EXCEPT !.raw = RawCalls + 1]]
                           ELSE added
    /\ UNCHANGED <<dec, run, leb>>

AddEof ==
    /\ Encoding
    /\ \A i \in 1..Len(added) : added[i].type # SCTP_TYPE_EOF
    /\ LET e == sctp_encoder_add_eof(enc)
       IN  /\ enc' = e
           /\ added' = Added(e, Field(SCTP_TYPE_EOF, {}, SizeOf(0), <<>>))
    /\ UNCHANGED <<dec, run, leb>>

----------------------------------------------------------------------------
(* Decoder construction and consumption *)

\* The bytes handed to the decoder.
Source == IF run.src = "encoder" THEN EncoderOutput(enc) ELSE run.input

SourceReady == run.mode = "none" /\ (run.src = "encoder" => enc.status = "ok")

\* A pointer to a buffer is its address and the bytes found there.  The
\* address is the environment's choice; the buffers decoded here lie at
\* HeapAddress.
HeapAddress == 65552

BufferAt(bytes) == [addr |-> HeapAddress, bytes |-> bytes]

\* malloc(size): the cells of the new buffer hold nothing yet (-1).
malloc(size) == BufferAt([i \in 1..size |-> -1])

\* sctp_decoder_from_buffer (instance variant)
sctp_decoder_from_buffer(buffer, size) ==
    [data |-> buffer.bytes, addr |-> buffer.addr, size |-> size, position |-> 0,
     last_type |-> SCTP_TYPE_EOF, last_value |-> ZeroValue, last_size |-> SizeOf(0),
     is_external_buffer |-> TRUE]

\* sctp_decoder_init (instance variant): the decoder owns a buffer of `size`
\* bytes from malloc.
sctp_decoder_init(size) ==
    LET buffer == malloc(size)
    IN  [data |-> buffer.bytes, addr |-> buffer.addr, size |-> size, position |-> 0,
         last_type |-> SCTP_TYPE_EOF, last_value |-> ZeroValue,
         last_size |-> SizeOf(0), is_external_buffer |-> FALSE]

\* Variant: the buffer is handed out whoever owns it.
GetBufferOfAny(d) == DataPtr(0)

\* sctp_decoder_get_buffer
sctp_decoder_get_buffer(d) == IF d.is_external_buffer THEN NullPtr ELSE DataPtr(0)

\* sctp_decoder_init of src/decoder.c: the global decoder with a buffer of
\* its own, which the caller has yet to fill.
sctp_decoder_init_g(size) ==
    [DecIdle EXCEPT !.data = malloc(size).bytes, !.addr = malloc(size).addr,
                    !.size = size]

DecoderFromBuffer ==
    /\ SourceReady
    /\ dec' = sctp_decoder_from_buffer(BufferAt(Source), Len(Source))
    /\ run' = [run EXCEPT !.mode = "fresh"]
    /\ UNCHANGED <<enc, added, leb>>

DecoderInitG ==
    /\ SourceReady
    /\ dec' = sctp_decoder_init_g(Len(Source))
    /\ run' = [run EXCEPT !.mode = "alloc"]
    /\ UNCHANGED <<enc, added, leb>>

DecoderInit ==
    /\ SourceReady
    /\ dec' = sctp_decoder_init(Len(Source))
    /\ run' = [run EXCEPT !.mode = "owned"]
    /\ UNCHANGED <<enc, added, leb>>

\* The caller asks for the buffer of the decoder and copies the stream into
\* it, provided it got a buffer.
FillBuffer ==
    /\ run.mode \in {"owned", "fresh"}
    /\ Len(run.headers) = 0 /\ Len(run.returned) = 0
    /\ sctp_decoder_get_buffer(dec) # NullPtr
    /\ dec.data # Source
    /\ dec' = [dec EXCEPT !.data = Source]
    /\ run' = [run EXCEPT !.mode = "fresh"]
    /\ UNCHANGED <<enc, added, leb>>

\* The host copies the stream into the buffer sctp_decoder_init returned.
HostFill ==
    /\ run.mode = "alloc"
    /\ dec' = [dec EXCEPT !.data = Source]
    /\ run' = [run EXCEPT !.mode = "fresh_g"]
    /\ UNCHANGED <<enc, added, leb>>

EofReturns == Cardinality({i \in 1..Len(run.returned) :
                              run.returned[i].ret = SCTP_TYPE_EOF})

\* One sctp_decoder_next call of the caller's loop.  The caller goes on
\* until it has seen EOF twice.
DecoderNext ==
    /\ run.mode \in {"fresh", "pull"}
    /\ run.pc = "ready"
    /\ EofReturns < 2
    /\ Len(run.returned) <= dec.size
    /\ LET r == sctp_decoder_next(dec)
           hs == IF dec.position < dec.size THEN Append(run.headers, dec.position)
                 ELSE run.headers
       IN  /\ dec' = r.dec
           /\ run' = [run EXCEPT
                        !.mode = "pull",
                        !.pc = IF r.st = "ok" THEN "ready" ELSE "aborted",
                        !.err = IF r.st = "ok" THEN "none" ELSE r.st,
                        !.headers = hs,
                        !.reads = @ \cup r.reads,
                        !.handed = @ \cup r.handed,
                        !.returned = IF r.st # "ok" THEN @
                                     ELSE Append(@, [ret |-> r.ret,
                                                     last_type |-> r.dec.last_type,
                                                     last_value |-> r.dec.last_value,
                                                     last_size |-> r.dec.last_size])]
    /\ UNCHANGED <<enc, added, leb>>

Ran(mode, r) ==
    /\ dec' = r.dec
    /\ run' = [run EXCEPT !.mode = mode, !.pc = r.pc, !.err = r.err, !.ret = r.ret,
                          !.calls = r.calls, !.headers = r.headers,
                          !.reads = r.reads, !.handed = r.handed]

DecoderRun ==
    /\ run.mode = "fresh"
    /\ Ran("run", sctp_decoder_run(dec))
    /\ UNCHANGED <<enc, added, leb>>

DecoderRunG ==
    /\ run.mode = "fresh_g"
    /\ Ran("run_g", sctp_decoder_run_g(dec))
    /\ UNCHANGED <<enc, added, leb>>

DecNext == DecoderFromBuffer \/ DecoderInitG \/ HostFill \/ DecoderNext
              \/ DecoderRun \/ DecoderRunG

EncNext == AddFixed \/ AddUleb128 \/ AddSleb128 \/ AddShort \/ AddVector
              \/ FillVector \/ AddEof

----------------------------------------------------------------------------
(* Specifications *)

\* Encode, then decode the encoder's output.
Init ==
    /\ enc = sctp_encoder_init(Capacity)
    /\ added = <<>>
    /\ dec = DecIdle
    /\ run = RunIdle
    /\ leb = LebIdle

Next == EncNext \/ DecNext

Spec == Init /\ [][Next]_vars

\* Streams with raw appended snippets, decoded in the pull model.
NextRaw == AddFixed \/ AddRaw \/ AddEof \/ DecoderFromBuffer \/ DecoderNext

SpecRaw == Init /\ [][NextRaw]_vars

----------------------------------------------------------------------------
(* Arbitrary input: a buffer is up to MaxPrefix leading pieces followed by *)
(* one trailing piece.                                                     *)

MaxPrefix == 2

\* Leading pieces: SHORT 10, EOF, INT8 -120, the vector "hi", ULEB128 128,
\* SLEB128 -1 under a header with metadata 3, UINT16 under metadata 5.
LeadPieces ==
    {<<172>>, <<15>>, <<0, 136>>, <<45, 104, 105>>, <<8, 128, 1>>,
     <<57, 127>>, <<83, 232, 253>>}

\* The header of every fixed-width type followed by 0 to width bytes.
FixedTails ==
    UNION {{<<type>> \o [k \in 1..n |-> 16 * k + 1] : n \in 0..FixedWidth(type)} :
              type \in FixedTypes}

\* LEB128 fields: cut short, overlong, padded, ten bytes long.
LebTails ==
    {<<type>> \o body :
        type \in {SCTP_TYPE_ULEB128, SCTP_TYPE_SLEB128},
        body \in {<<>>, <<128>>, <<128, 0>>, <<255, 127>>, Repeat(128, 10),
                  Repeat(255, 9) \o <<127>>, Repeat(128, 9) \o <<1>>}}

\* Vectors: empty, cut short, with a length prefix (15, 20), with a length
\* prefix of 2^32 - 6, 2^32 - 7, 2^32 - 1 and 2^32, with the length cut short.
VectorTails ==
    {<<13>>, <<61, 1, 2>>, <<61, 1, 2, 3>>, <<253>>, <<253, 128>>,
     <<253, 15>> \o Repeat(7, 15), <<253, 20>> \o Repeat(7, 20),
     <<253, 20>> \o Repeat(7, 19),
     <<253, 250, 255, 255, 255, 15>>, <<253, 249, 255, 255, 255, 15>>,
     <<253, 255, 255, 255, 255, 15>>, <<253, 128, 128, 128, 128, 16>>,
     <<253, 128, 128, 128, 128, 16, 172>>}

\* The reserved type, SHORT 15, EOF followed by further bytes.
OtherTails ==
    {<<>>, <<252>>, <<15, 172>>, <<15, 14>>, <<255>>}
        \cup {<<14 + 16 * meta>> : meta \in 0..15}

TailPieces == FixedTails \cup LebTails \cup VectorTails \cup OtherTails

RECURSIVE Prefixes(_)
Prefixes(n) ==
    IF n = 0 THEN {<<>>}
    ELSE LET shorter == Prefixes(n - 1)
         IN  shorter \cup {p \o f : p \in shorter, f \in LeadPieces}

FuzzInputs == {p \o t : p \in Prefixes(MaxPrefix), t \in TailPieces}

FuzzInit ==
    /\ enc = EncIdle
    /\ added = <<>>
    /\ dec = DecIdle
    /\ run \in {[RunIdle EXCEPT !.src = "bytes", !.input = b] : b \in FuzzInputs}
    /\ leb = LebIdle

\* Decode arbitrary bytes.
SpecFuzz == FuzzInit /\ [][DecNext]_vars

\* Both constructors of the instance decoder on buffers of whole fields.
CtorInit ==
    /\ enc = EncIdle
    /\ added = <<>>
    /\ dec = DecIdle
    /\ run \in {[RunIdle EXCEPT !.src = "bytes", !.input = b] :
                  b \in Prefixes(MaxPrefix) \ {<<>>}}
    /\ leb = LebIdle

CtorNext == DecoderInit \/ FillBuffer \/ DecoderFromBuffer \/ DecoderNext \/ DecoderRun

SpecCtor == CtorInit /\ [][CtorNext]_vars

\* Fixed-width fields under every metadata nibble: the header, the payload
\* (whole, or one byte short), and nothing or SHORT 10 behind it.
MetaPayloads(type) ==
    {[k \in 1..n |-> 16 * k + 1] : n \in {FixedWidth(type) - 1, FixedWidth(type)}}
        \cup {[k \in 1..FixedWidth(type) |-> 255 - k]}

\* SHORT under every metadata nibble, with nothing, a SHORT or an INT8 behind.
ShortInputs ==
    {<<SCTP_TYPE_SHORT + meta * Pow2(SCTP_META_SHIFT)>> \o rest :
        meta \in 0..15, rest \in {<<>>, <<172>>, <<0, 136>>}}

\* LEB128 fields of every length on the wire that the readers accept: up
\* to (W64 - 1) \div 7 continuation bytes and a terminating byte.
LebFieldInputs ==
    {<<type + meta * Pow2(SCTP_META_SHIFT)>> \o Repeat(c, k) \o <<t>> \o rest :
        type \in {SCTP_TYPE_ULEB128, SCTP_TYPE_SLEB128}, meta \in {0, 3},
        c \in ContBytes, k \in 0..((W64 - 1) \div 7), t \in TermBytes,
        rest \in {<<>>, <<172>>}}

MetaInputs ==
    UNION {{<<type + meta * Pow2(SCTP_META_SHIFT)>> \o payload \o rest :
                meta \in 0..15, payload \in MetaPayloads(type),
                rest \in {<<>>, <<172>>}} : type \in FixedTypes}
        \cup ShortInputs \cup LebFieldInputs

MetaInit ==
    /\ enc = EncIdle
    /\ added = <<>>
    /\ dec = DecIdle
    /\ run \in {[RunIdle EXCEPT !.src = "bytes", !.input = b] : b \in MetaInputs}
    /\ leb = LebIdle

\* Decode a fixed-width, SHORT or LEB128 field under any header.
SpecMeta == MetaInit /\ [][DecNext]_vars

\* The LEB128 codec on drawn values and byte strings.
LebInit ==
    /\ enc = EncIdle
    /\ added = <<>>
    /\ dec = DecIdle
    /\ run = RunIdle
    /\ leb \in {[LebIdle EXCEPT !.stage = "value", !.value = v] : v \in LebValues}
               \cup {[LebIdle EXCEPT !.stage = "wire", !.wire = w] : w \in LebWires}

SpecLeb == LebInit /\ [][LebNext]_vars

----------------------------------------------------------------------------
(* Properties *)

Snapshot(r) == [ret |-> r.ret, last_type |-> r.dec.last_type,
                last_value |-> r.dec.last_value, last_size |-> r.dec.last_size]

\* The caller's loop over sctp_decoder_next up to the first returned EOF:
\* what each call returned and stored; a call that aborts ends the trace
\* with the kind of the abort.  fuel bounds the number of calls.
RECURSIVE PullTrace(_, _)
PullTrace(d, fuel) ==
    LET r == sctp_decoder_next(d)
    IN  IF r.st # "ok" THEN <<r.st>>
        ELSE IF r.ret = SCTP_TYPE_EOF \/ fuel = 0 THEN <<Snapshot(r)>>
        ELSE <<Snapshot(r)>> \o PullTrace(r.dec, fuel - 1)

PullAll(bytes) ==
    PullTrace(sctp_decoder_from_buffer(BufferAt(bytes), Len(bytes)), Len(bytes))

\* The stream came out of the encoder without an abort, every reservation
\* was within the capacity and every reserved span has been filled.
WellFormedStream ==
    /\ run.src = "encoder"
    /\ enc.status = "ok"
    /\ ~enc.overrun
    /\ \A i \in 1..Len(added) : \A k \in 1..Len(added[i].bytes) : added[i].bytes[k] >= 0

EndsWithEof == added # <<>> /\ added[Len(added)].type = SCTP_TYPE_EOF

\* What one sctp_decoder_next call returned and stored is the field f.
Surfaces(got, data, f) ==
    /\ got.ret = f.type
    /\ got.last_type = f.type
    /\ got.last_size = f.size
    /\ CASE f.type \in FixedTypes ->
              {i \in got.last_value.bits : i < 8 * FixedWidth(f.type)} = f.value
         [] f.type \in {SCTP_TYPE_ULEB128, SCTP_TYPE_SLEB128} ->
              got.last_value.bits = f.value
         [] f.type = SCTP_TYPE_SHORT ->
              {i \in got.last_value.bits : i < 8} = f.value
         [] f.type = SCTP_TYPE_VECTOR ->
              /\ AsPtr(got.last_value.bits, dec.addr, dec.size).base = "data"
              /\ Slice(data, AsPtr(got.last_value.bits, dec.addr, dec.size).off,
                       NatOfBits(f.size)) = f.bytes
              /\ Len(f.bytes) = NatOfBits(f.size)
         [] OTHER -> TRUE

\* C1: a stream of fields added within the capacity, with its vector spans
\* filled and ended by add_eof, is surfaced by successive sctp_decoder_next
\* calls on the encoder's output as the same types in insertion order, each
\* with the value added and the size of the added value, and then EOF; no
\* call aborts.
C1_RoundTrip ==
    (WellFormedStream /\ EndsWithEof /\ run.mode = "pull") =>
        /\ run.pc = "ready"
        /\ \A k \in 1..Len(run.returned) :
              IF k <= Len(added)
              THEN Surfaces(run.returned[k], dec.data, added[k])
              ELSE run.returned[k].ret = SCTP_TYPE_EOF

C1_Witness ==
    /\ WellFormedStream /\ EndsWithEof /\ run.mode = "pull"
    /\ Len(added) = 3
    /\ Len(run.returned) = 3
    /\ added[1].type = SCTP_TYPE_VECTOR /\ added[1].size = SizeOf(15)
    /\ added[2].type = SCTP_TYPE_SLEB128
    /\ run.returned[3].ret = SCTP_TYPE_EOF

\* A range of the buffer lies inside [0, size).
InBuffer(h) == h.off <= dec.size /\ ~SizeGt(h.size, dec.size - h.off)

DefinedErrors == {"Truncated", "Overflow", "UnknownType"}

\* C2: whatever the buffer, every offset the decoder reads is below size,
\* every payload range it exposes lies inside the buffer, and decoding
\* completes or aborts with one of the defined errors.
C2_FuzzSafety ==
    /\ \A i \in run.reads : i < dec.size
    /\ \A h \in run.handed : InBuffer(h)
    /\ run.pc \in {"ready", "done", "aborted"}
    /\ run.pc = "aborted" => run.err \in DefinedErrors

\* C3: decoding terminates: no offset is decoded as a field header twice, so
\* the number of decoded fields is bounded by the length of the buffer.
C3_Terminates ==
    /\ run.pc # "diverges"
    /\ \A i, j \in 1..Len(run.headers) : i # j => run.headers[i] # run.headers[j]
    /\ Len(run.headers) <= dec.size

HeaderTypeAt(off) == HeaderType(dec.data[off + 1])

\* C4: a run that returns has called the handler once per field, in stream
\* order, and then exactly once with (EOF, NULL, 0), and returns 0: one call
\* more than there are fields before the end of the stream.
C4_PushDelivery ==
    (run.mode \in {"run", "run_g"} /\ run.pc = "done") =>
        LET fields == {i \in 1..Len(run.headers) :
                          HeaderTypeAt(run.headers[i]) # SCTP_TYPE_EOF}
        IN  /\ run.ret = <<0>>
            /\ Len(run.calls) = Cardinality(fields) + 1
            /\ run.calls[Len(run.calls)] = EofCall
            /\ \A i \in 1..(Len(run.calls) - 1) :
                  run.calls[i].type = HeaderTypeAt(run.headers[i])
                      /\ run.calls[i].type # SCTP_TYPE_EOF

\* C5: the pull loop over a well-formed stream and over the same stream
\* with (respectively without) one final EOF header byte returns and stores
\* the same sequence, ending with a returned EOF with last_type EOF and
\* last_size 0; on the empty buffer that is the first call.
C5_EofEquivalence ==
    (WellFormedStream /\ run.mode = "pull" /\ EofReturns = 1
        /\ run.returned[Len(run.returned)].ret = SCTP_TYPE_EOF) =>
        LET other == IF EndsWithEof THEN SubSeq(dec.data, 1, dec.size - 1)
                     ELSE dec.data \o <<SCTP_TYPE_EOF>>
            last == run.returned[Len(run.returned)]
        IN  /\ PullAll(other) = run.returned
            /\ last.last_type = SCTP_TYPE_EOF
            /\ last.last_size = SizeOf(0)
            /\ dec.size = 0 => Len(run.returned) = 1

C5_Witness ==
    /\ WellFormedStream /\ run.mode = "pull" /\ EofReturns = 1
    /\ ~EndsWithEof
    /\ Len(added) = 2
    /\ Len(run.returned) = 3
    /\ run.returned[3].ret = SCTP_TYPE_EOF

\* The declared widths of the types 0-7, 10 and 11.
DeclaredWidth ==
    [t \in {0, 1, 2, 3, 4, 5, 6, 7, 10, 11} |->
        CASE t \in {0, 1} -> 1
          [] t \in {2, 3} -> 2
          [] t \in {4, 5, 10} -> 4
          [] t \in {6, 7, 11} -> 8]

\* The last header read belongs to a fixed-width field with fewer bytes
\* behind it than the declared width of its type.
TruncatedFixed ==
    /\ run.headers # <<>>
    /\ LET h == run.headers[Len(run.headers)]
       IN  /\ HeaderTypeAt(h) \in DOMAIN DeclaredWidth
           /\ dec.size - (h + 1) < DeclaredWidth[HeaderTypeAt(h)]

\* C6: a fixed-width header followed by fewer bytes than its width aborts
\* with Truncated, nothing is read past the buffer, sctp_decoder_next
\* returns nothing for it and sctp_decoder_run does not call the handler
\* for it.
C6_TruncationDetected ==
    TruncatedFixed =>
        /\ run.pc = "aborted"
        /\ run.err = "Truncated"
        /\ \A i \in run.reads : i < dec.size
        /\ run.mode = "pull" => Len(run.returned) = Len(run.headers) - 1
        /\ run.mode \in {"run", "run_g"} =>
              Len(run.calls) = Len(run.headers) - 1 /\ run.ret = <<>>

C6_Witness ==
    /\ TruncatedFixed
    /\ run.mode = "run_g"
    /\ Len(run.headers) = 2
    /\ HeaderTypeAt(run.headers[2]) = SCTP_TYPE_INT32
    /\ dec.size - run.headers[2] = 4

\* The number of leading bytes of w with the continuation bit set.
RECURSIVE ContRun(_)
ContRun(w) == IF w = <<>> \/ Head(w) < 128 THEN 0 ELSE 1 + ContRun(Tail(w))

\* The least number of 7-bit groups whose shift reaches 64.
ShiftLimit == CHOOSE n \in 1..W64 : 7 * n >= W64 /\ 7 * (n - 1) < W64

\* C7: a LEB128 read aborts with Overflow when the shift reaches 64 before
\* a byte without continuation bit, with Truncated when the buffer ends
\* before such a byte, and otherwise consumes the bytes up to and including
\* the first byte without continuation bit.
C7_LebFailures ==
    leb.stage = "decoded" =>
        LET c == ContRun(leb.wire)
        IN  IF c >= ShiftLimit THEN leb.st = "Overflow"
            ELSE IF c = Len(leb.wire) THEN leb.st = "Truncated"
            ELSE leb.st = "ok" /\ leb.used = c + 1

C7_Witness ==
    /\ leb.stage = "decoded"
    /\ leb.st = "Overflow"
    /\ ~leb.signed
    /\ Len(leb.wire) = 11
    /\ leb.wire[11] < 128

\* C8: reading back what the LEB128 writer wrote for a 64-bit value returns
\* that value and consumes exactly the bytes written.
C8_LebRoundTrip ==
    leb.stage = "readback" =>
        /\ leb.st = "ok"
        /\ leb.back = leb.value
        /\ leb.used = Len(leb.wire)

C8_Witness ==
    /\ leb.stage = "readback"
    /\ leb.signed
    /\ leb.value = {W64 - 1}
    /\ leb.back = {W64 - 1}
    /\ Len(leb.wire) = 10

\* C9: writing the value a LEB128 read returned reproduces the bytes the
\* read consumed.
C9_LebCanonical ==
    leb.stage = "reencoded" => leb.again = SubSeq(leb.wire, 1, leb.used)

\* The number of bits needed for an unsigned value.
BitLength(v) == IF v = {} THEN 0 ELSE 1 + CHOOSE i \in v : \A j \in v : j <= i

\* The least number of 7-bit groups that hold a signed value: every bit
\* from the top bit of the last group upwards equals the sign.
SignedGroups(v) ==
    CHOOSE n \in 1..ShiftLimit :
        /\ \A i \in (7 * n - 1)..(W64 - 1) : (i \in v) = ((W64 - 1) \in v)
        /\ \A m \in 1..(n - 1) :
              \E i \in (7 * m - 1)..(W64 - 1) : (i \in v) # ((W64 - 1) \in v)

\* C10: the LEB128 writers emit at least one byte, set the continuation bit
\* on every byte but the last, and emit the shortest form: for ULEB128
\* max(1, ceil(bit length / 7)) bytes, for SLEB128 the least number of
\* groups that hold the value with its sign; no accepted byte string that
\* reads as a value is shorter than what the writer emits for that value.
C10_LebMinimal ==
    /\ leb.stage = "encoded" =>
          /\ Len(leb.wire) >= 1
          /\ \A i \in 1..Len(leb.wire) : (leb.wire[i] >= 128) = (i < Len(leb.wire))
          /\ ~leb.signed =>
                Len(leb.wire) = (IF leb.value = {} THEN 1
                                 ELSE (BitLength(leb.value) + 6) \div 7)
          /\ leb.signed => Len(leb.wire) = SignedGroups(leb.value)
    /\ leb.stage = "reencoded" => Len(leb.again) <= leb.used

C10_Witness ==
    /\ leb.stage = "encoded"
    /\ ~leb.signed
    /\ leb.value = {13, 14}
    /\ Len(leb.wire) = 3

----------------------------------------------------------------------------
(* Encoder steps.  A step that appended a field to the caller's record is  *)
(* an add that returned; enc is the encoder before it, enc' after it.      *)

\* The step added a field of this type.
AddedOne(type) ==
    /\ Len(added') = Len(added) + 1
    /\ added'[Len(added')].type = type

\* The 7-bit group k (from 0) of a value, and the ULEB128 bytes of a value
\* as the format defines them: max(1, ceil(bit length / 7)) groups, low
\* group first, the continuation bit on all but the last.
GroupOf(v, k) == NatOfBits({i - 7 * k : i \in {j \in v : j >= 7 * k /\ j < 7 * k + 7}})

UlebOf(v) ==
    LET n == IF v = {} THEN 1 ELSE (BitLength(v) + 6) \div 7
    IN  [k \in 1..n |-> GroupOf(v, k - 1) + (IF k < n THEN 128 ELSE 0)]

\* The cells of the buffer from offset off on hold the bytes bs.
HoldsAt(buffer, off, bs) ==
    /\ off + Len(bs) <= Len(buffer)
    /\ \A k \in 1..Len(bs) : buffer[off + k] = bs[k]

\* What sctp_encoder_add_vector(length) is to write at the old position: the
\* header 13 | (length << 4) alone when length <= 14, the header
\* 13 | (15 << 4) followed by ULEB128(length) when length >= 15.
VectorPrefix(length) ==
    IF (\A i \in length : i < 4) /\ NatOfBits(length) <= 14
    THEN <<SCTP_TYPE_VECTOR + 16 * NatOfBits(length)>>
    ELSE <<SCTP_TYPE_VECTOR + 16 * 15>> \o UlebOf(length)

\* The call has written the prefix at the old position and nothing else, and
\* returned the span of `length` bytes that starts right after the prefix.
VectorHeaderWritten(length) ==
    LET prefix == VectorPrefix(length)
        start == enc.position + Len(prefix)
    IN  /\ enc'.status = "ok"
        /\ HoldsAt(enc'.buffer, enc.position, prefix)
        /\ \A i \in 1..enc.capacity :
              (i <= enc.position \/ i > start) => enc'.buffer[i] = enc.buffer[i]
        /\ enc'.span = [off |-> start, len |-> length]

\* The position has advanced by exactly 1 + the bytes of the length prefix +
\* length (as numbers, not modulo the width of size_t).
VectorAdvanced(length) ==
    LET start == enc.position + Len(VectorPrefix(length))
    IN  /\ enc'.position >= start
        /\ SizeOf(enc'.position - start) = length

\* C11: an sctp_encoder_add_vector(length) that returns has written, at the
\* old position, the header with metadata = length alone when length <= 14
\* and the header with metadata 15 followed by ULEB128(length) when
\* length >= 15; in both cases it has reserved exactly `length` bytes, the
\* position having advanced by 1 + the bytes of the length prefix + length;
\* length 0 is accepted and reserves nothing.
C11_VectorThreshold ==
    [][AddedOne(SCTP_TYPE_VECTOR) =>
        LET length == added'[Len(added')].size
        IN  /\ VectorHeaderWritten(length)
            /\ VectorAdvanced(length)
            /\ length = {} => enc'.position = enc.position + 1
    ]_vars

\* The part that holds: the header and the length prefix for every length,
\* and the advance for the lengths below 2^16.
C11_ThresholdShortLengths ==
    [][AddedOne(SCTP_TYPE_VECTOR) =>
        LET length == added'[Len(added')].size
        IN  /\ VectorHeaderWritten(length)
            /\ (\A i \in length : i < 16) => VectorAdvanced(length)
            /\ length = {} => enc'.position = enc.position + 1
    ]_vars

C11_Witness ==
    /\ Len(added) = 2
    /\ added[1].type = SCTP_TYPE_SHORT
    /\ added[2].type = SCTP_TYPE_VECTOR /\ added[2].size = SizeOf(15)
    /\ enc.status = "ok"
    /\ enc.position = 18
    /\ enc.buffer[2] = 253 /\ enc.buffer[3] = 15

----------------------------------------------------------------------------
(* Decoder steps, field by field.  The k-th header read is run.headers[k]; *)
(* what the decoder gave the caller for it is the k-th value returned by   *)
(* sctp_decoder_next or the k-th handler call of sctp_decoder_run.         *)

Delivered == IF run.mode = "pull" THEN Len(run.returned) ELSE Len(run.calls)

DeliveredSize(k) ==
    IF run.mode = "pull" THEN run.returned[k].last_size ELSE run.calls[k].size

DeliveredPtr(k) ==
    IF run.mode = "pull"
    THEN AsPtr(run.returned[k].last_value.bits, dec.addr, dec.size)
    ELSE run.calls[k].ptr

\* The offset the decoder went to after the k-th header's field.
CursorAfter(k) ==
    IF k < Len(run.headers) THEN run.headers[k + 1] ELSE dec.position

\* A 64-bit length exceeds a number of remaining bytes.
LengthGt(length, n) == (\E i \in length : i >= 16) \/ NatOfBits(length) > n

\* C12: for every VECTOR header whose length prefix can be read, the length
\* is the metadata when it is 0..14 and the ULEB128 value behind the header
\* when it is 15; if fewer than length bytes remain behind the prefix the
\* decoding aborts there with Truncated, and otherwise the caller gets a
\* slice that starts right behind the prefix and has size length, and the
\* cursor moves on by exactly length.
C12_VectorDecode ==
    (run.mode \in {"pull", "run", "run_g"}) =>
        \A k \in 1..Len(run.headers) :
            LET h == run.headers[k]
                header == dec.data[h + 1]
                large == header \div 16 = 15
                lr == _sctp_decoder_read_uleb128(dec.data, dec.size, h + 1)
                length == IF large THEN lr.value ELSE SizeOf(header \div 16)
                start == IF large THEN lr.pos ELSE h + 1
            IN  (header % 16 = SCTP_TYPE_VECTOR /\ (large => lr.st = "ok")) =>
                    IF LengthGt(length, dec.size - start)
                    THEN /\ k = Len(run.headers)
                         /\ Delivered < k
                         /\ run.pc = "aborted"
                         /\ run.err = "Truncated"
                    ELSE /\ Delivered >= k
                         /\ DeliveredSize(k) = length
                         /\ DeliveredPtr(k) = DataPtr(start)
                         /\ CursorAfter(k) = start + NatOfBits(length)

\* The same, for buffers whose vector lengths are below 2^16.
C12_ShortLengths ==
    (\A k \in 1..Len(dec.data) : dec.data[k] = 253 =>
        /\ k + 3 <= Len(dec.data) => dec.data[k + 3] < 128
        /\ k + 1 <= Len(dec.data) => dec.data[k + 1] < 255) => C12_VectorDecode

\* C13: an sctp_encoder_add_short(v) that returns had v <= 15 and appended
\* exactly the byte 12 | (v << 4), changing nothing else; one that aborts
\* with InvalidArgument (v > 15) leaves position and buffer as they were.
C13_ShortBounds ==
    [][/\ AddedOne(SCTP_TYPE_SHORT) =>
            LET v == NatOfBits(added'[Len(added')].value)
            IN  /\ v <= 15
                /\ enc'.status = "ok"
                /\ enc'.position = enc.position + 1
                /\ enc'.buffer[enc.position + 1] = 12 + 16 * v
                /\ \A i \in 1..enc.capacity :
                      i # enc.position + 1 => enc'.buffer[i] = enc.buffer[i]
       /\ (enc.status = "ok" /\ enc'.err = "InvalidArgument") =>
            /\ enc'.status = "aborted"
            /\ enc'.position = enc.position
            /\ enc'.buffer = enc.buffer
            /\ added' = added
    ]_vars

C13_Witness ==
    /\ enc.status = "aborted" /\ enc.err = "InvalidArgument"
    /\ Len(added) = 1
    /\ added[1].type = SCTP_TYPE_SHORT /\ added[1].value = BitsOfNat(15, 8)
    /\ enc.position = 1
    /\ enc.buffer[1] = 252 /\ enc.buffer[2] = -1

\* C14: the encoder's position stays within 0..capacity, the span handed
\* out by sctp_encoder_add_vector lies inside the buffer for every length,
\* and no reservation that needs more than the capacity has gone through:
\* such an operation aborts with CapacityExceeded instead.
C14_WriterCapacity ==
    /\ enc.position >= 0 /\ enc.position <= enc.capacity
    /\ Len(enc.buffer) = enc.capacity
    /\ enc.span.off <= enc.capacity
    /\ ~SizeGt(enc.span.len, enc.capacity - enc.span.off)
    /\ ~enc.overrun
    /\ enc.status = "aborted" => enc.err \in {"CapacityExceeded", "InvalidArgument"}

\* The same, as long as no length of 2^16 or more was asked for.
C14_ShortLengths ==
    (\A i \in 1..Len(added) : \A b \in added[i].size : b < 16)
        /\ (\A b \in enc.span.len : b < 16) => C14_WriterCapacity

\* C15: every header read whose type nibble is 14, whatever its metadata
\* nibble, ends the decoding with the abort UnknownType, in the pull model
\* and in both sctp_decoder_run; nothing is returned and the handler is not
\* called for it.
C15_ReservedType ==
    \A k \in 1..Len(run.headers) :
        dec.data[run.headers[k] + 1] % 16 = 14 =>
            /\ k = Len(run.headers)
            /\ run.pc = "aborted"
            /\ run.err = "UnknownType"
            /\ Delivered < k
            /\ run.ret = <<>>

C15_Witness ==
    /\ run.mode = "run_g"
    /\ Len(run.headers) = 3
    /\ dec.data[run.headers[3] + 1] = 14 + 16 * 5
    /\ Len(run.calls) = 2
    /\ run.pc = "aborted"

\* Byte k (from 0) of a value, and the bytes of a field on the wire as the
\* format defines them: the header type | (metadata << 4), then for a
\* fixed-width type the value's bytes, low byte first, under metadata 0.
OctetOf(v, k) == NatOfBits({i - 8 * k : i \in {j \in v : j >= 8 * k /\ j < 8 * k + 8}})

\* The SLEB128 bytes of a value: its least number of 7-bit groups, the bits
\* above bit 63 being copies of the sign.
SlebOf(v) ==
    LET n == SignedGroups(v)
        group(k) == NatOfBits({i \in 0..6 :
                        IF 7 * k + i >= W64 THEN (W64 - 1) \in v ELSE (7 * k + i) \in v})
    IN  [k \in 1..n |-> group(k - 1) + (IF k < n THEN 128 ELSE 0)]

WireOf(f) ==
    CASE f.type \in DOMAIN DeclaredWidth ->
            <<f.type>> \o [k \in 1..DeclaredWidth[f.type] |-> OctetOf(f.value, k - 1)]
      [] f.type = 8 -> <<8>> \o UlebOf(f.value)
      [] f.type = 9 -> <<9>> \o SlebOf(f.value)
      [] f.type = 12 -> <<12 + 16 * NatOfBits(f.value)>>
      [] f.type = 13 ->
            (IF NatOfBits(f.size) <= 14 THEN <<13 + 16 * NatOfBits(f.size)>>
             ELSE <<13 + 16 * 15>> \o UlebOf(f.size)) \o f.bytes
      [] f.type = 15 -> <<15>>

RECURSIVE WireOfAll(_)
WireOfAll(fs) == IF fs = <<>> THEN <<>> ELSE WireOf(Head(fs)) \o WireOfAll(Tail(fs))

\* The caller's record holds exactly this one field.
OnlyField(type, value, size) ==
    /\ Len(added) = 1
    /\ added[1].type = type /\ added[1].value = value /\ added[1].size = size

\* C16: the output of the encoder is, field after field, the header byte
\* type | (metadata << 4) followed by the field's bytes, for fixed-width
\* types the value in little-endian order under metadata 0; INT8(-120) is
\* [0x00, 0x88], SHORT(10) is [0xAC], the vector "hi" is [0x2D, 0x68, 0x69],
\* a 20-byte vector is [0xFD, 0x14] and its 20 bytes, EOF alone is [0x0F].
C16_WireFormat ==
    WellFormedStream =>
        /\ EncoderOutput(enc) = WireOfAll(added)
        /\ OnlyField(0, BitsOfNat(136, 8), SizeOf(1)) => EncoderOutput(enc) = <<0, 136>>
        /\ OnlyField(12, BitsOfNat(10, 8), SizeOf(1)) => EncoderOutput(enc) = <<172>>
        /\ OnlyField(13, {}, SizeOf(2)) => EncoderOutput(enc) = <<45, 104, 105>>
        /\ OnlyField(13, {}, SizeOf(20)) =>
              /\ SubSeq(EncoderOutput(enc), 1, 2) = <<253, 20>>
              /\ SubSeq(EncoderOutput(enc), 3, 22) = added[1].bytes
              /\ Len(EncoderOutput(enc)) = 22
        /\ OnlyField(15, {}, SizeOf(0)) => EncoderOutput(enc) = <<15>>

C16_Witness ==
    /\ WellFormedStream
    /\ Len(added) = 3
    /\ added[1].type = SCTP_TYPE_INT32
    /\ added[2].type = SCTP_TYPE_VECTOR /\ added[2].size = SizeOf(15)
    /\ added[3].type = SCTP_TYPE_EOF
    /\ EncoderOutput(enc) = <<4, 0, 108, 202, 136, 253, 15>> \o VectorFill(15) \o <<15>>

\* C17: no step of sctp_decoder_next or sctp_decoder_run lowers the
\* decoder's position: it ends no lower than it began, and the offsets at
\* which the step read its headers never go down.
C17_MonotoneCursor ==
    [][/\ dec'.position >= dec.position
       /\ \A i \in 1..(Len(run'.headers) - 1) : run'.headers[i] <= run'.headers[i + 1]
       /\ run'.headers # <<>> => run'.headers[Len(run'.headers)] <= dec'.position
    ]_vars

\* The same, for buffers whose vector lengths are below 2^16.
C17_ShortLengths ==
    [][(\A k \in 1..Len(dec'.data) : dec'.data[k] = 253 =>
            /\ k + 3 <= Len(dec'.data) => dec'.data[k + 3] < 128
            /\ k + 1 <= Len(dec'.data) => dec'.data[k + 1] < 255) =>
        /\ dec'.position >= dec.position
        /\ \A i \in 1..(Len(run'.headers) - 1) : run'.headers[i] <= run'.headers[i + 1]
        /\ run'.headers # <<>> => run'.headers[Len(run'.headers)] <= dec'.position
    ]_vars

\* C18 as claimed: a sctp_decoder_run that aborts has not called the handler
\* for any field of the pass.
C18_NoPartialResult ==
    (run.mode \in {"run", "run_g"} /\ run.pc = "aborted") => run.calls = <<>>

\* The size the handler gets for a field of a type other than VECTOR.
HandlerSize ==
    [t \in (0..12) |-> IF t \in DOMAIN DeclaredWidth THEN DeclaredWidth[t]
                       ELSE IF t = 12 THEN 1 ELSE 8]

\* What does hold of a sctp_decoder_run that aborts: it returns no value,
\* and has called the handler once for each header before the one it
\* aborted at, in order, with the size of the type for every type other
\* than VECTOR, and neither for the failing header nor with EOF.  (The
\* range passed for a VECTOR is that of C2.)
C18_NoPartialField ==
    (run.mode \in {"run", "run_g"} /\ run.pc = "aborted") =>
        /\ run.err \in DefinedErrors
        /\ run.ret = <<>>
        /\ Len(run.calls) = Len(run.headers) - 1
        /\ \A i \in 1..Len(run.calls) :
              LET t == dec.data[run.headers[i] + 1] % 16
              IN  /\ run.calls[i].type = t
                  /\ t # SCTP_TYPE_EOF
                  /\ t # SCTP_TYPE_VECTOR =>
                        /\ run.calls[i].size = SizeOf(HandlerSize[t])
                        /\ Len(run.calls[i].bytes) = HandlerSize[t]

C18_Witness ==
    /\ run.mode = "run" /\ run.pc = "aborted" /\ run.err = "Overflow"
    /\ Len(run.calls) = 2
    /\ run.calls[1].type = SCTP_TYPE_INT8
    /\ run.calls[2].type = SCTP_TYPE_VECTOR

\* C19: sctp_decoder_run returns 0 when the pass succeeds or reaches EOF,
\* and returns a value other than 0 when it meets a decoding error.
C19_ReturnCode ==
    (run.mode \in {"run", "run_g"}) =>
        /\ run.pc = "done" => run.ret = <<0>>
        /\ run.pc = "aborted" => (run.ret # <<>> /\ run.ret[1] # 0)

\* The part of it about success.
C19_ReturnsZero ==
    (run.mode \in {"run", "run_g"} /\ run.pc = "done") => run.ret = <<0>>

\* C20: a stream built from fields, the raw appended output of encoding a
\* field sequence, further fields and EOF is the concatenation of the
\* encodings of all these fields in order, and successive sctp_decoder_next
\* calls on it surface the fields before the snippet, the fields of the
\* snippet, the fields after it and then EOF.
C20_RawAppend ==
    (WellFormedStream /\ RawCalls >= 1) =>
        /\ EncoderOutput(enc) = WireOfAll(added)
        /\ (EndsWithEof /\ run.mode = "pull") =>
              /\ run.pc = "ready"
              /\ \A k \in 1..Len(run.returned) :
                    IF k <= Len(added)
                    THEN Surfaces(run.returned[k], dec.data, added[k])
                    ELSE run.returned[k].ret = SCTP_TYPE_EOF

C20_Witness ==
    /\ WellFormedStream /\ EndsWithEof /\ run.mode = "pull"
    /\ Len(added) = 5
    /\ added[1].type = SCTP_TYPE_UINT32 /\ added[1].raw = 0
    /\ added[2].type = SCTP_TYPE_INT16 /\ added[2].raw = 1
    /\ added[3].type = SCTP_TYPE_SHORT /\ added[3].raw = 1
    /\ added[4].type = SCTP_TYPE_UINT32 /\ added[4].raw = 0
    /\ Len(run.returned) = 5
    /\ run.returned[2].last_value.bits = BitsOfNat(42, 16) \cup {i \in 16..31 : TRUE}
    /\ run.returned[5].ret = SCTP_TYPE_EOF

----------------------------------------------------------------------------
\* The buffer with the metadata nibble of its first header cleared.
MetaZero(bytes) == [bytes EXCEPT ![1] = @ % 16]

FirstIsFixed == run.src = "bytes" /\ run.input # <<>> /\ (run.input[1] % 16) \in FixedTypes

\* C21: a fixed-width field (types 0-7, 10, 11) under any metadata nibble
\* decodes as it does under metadata 0: the same type, value and size, the
\* same number of bytes consumed, the same handler calls in the push model
\* of both decoder variants; with its payload present it is never rejected.
C21_MetadataIgnored ==
    FirstIsFixed =>
        LET base == MetaZero(run.input)
            w == FixedWidth(run.input[1] % 16)
            next0 == sctp_decoder_next(sctp_decoder_from_buffer(BufferAt(base), Len(base)))
            run0 == sctp_decoder_run(sctp_decoder_from_buffer(BufferAt(base), Len(base)))
            rung0 == sctp_decoder_run_g([sctp_decoder_init_g(Len(base)) EXCEPT !.data = base])
        IN  /\ (run.mode = "pull" /\ Len(run.headers) = 1
                  /\ Len(run.returned) = (IF run.pc = "ready" THEN 1 ELSE 0)) =>
                  /\ (run.pc = "ready") = (next0.st = "ok")
                  /\ run.err = (IF next0.st = "ok" THEN "none" ELSE next0.st)
                  /\ next0.st = "ok" =>
                        /\ run.returned[1].ret = next0.ret
                        /\ dec.last_type = next0.dec.last_type
                        /\ dec.last_value = next0.dec.last_value
                        /\ dec.last_size = next0.dec.last_size
                        /\ dec.position = next0.dec.position
                  /\ Len(run.input) >= 1 + w =>
                        /\ run.pc = "ready"
                        /\ dec.last_type = run.input[1] % 16
                        /\ dec.last_size = SizeOf(w)
                        /\ dec.last_value.bits = ValueOfBytes(Slice(run.input, 1, w))
                        /\ dec.position = 1 + w
            /\ run.mode = "run" =>
                  /\ run.pc = run0.pc /\ run.err = run0.err /\ run.calls = run0.calls
                  /\ dec.position = run0.dec.position
                  /\ Len(run.input) >= 1 + w =>
                        /\ Len(run.calls) >= 1
                        /\ run.calls[1].type = run.input[1] % 16
                        /\ run.calls[1].size = SizeOf(w)
                        /\ run.calls[1].bytes = Slice(run.input, 1, w)
            /\ run.mode = "run_g" =>
                  /\ run.pc = rung0.pc /\ run.err = rung0.err /\ run.calls = rung0.calls
                  /\ dec.position = rung0.dec.position
                  /\ Len(run.input) >= 1 + w =>
                        /\ Len(run.calls) >= 1
                        /\ run.calls[1].type = run.input[1] % 16
                        /\ run.calls[1].size = SizeOf(w)
                        /\ run.calls[1].bytes = Slice(run.input, 1, w)

\* An INT32 under metadata 9 was decoded by sctp_decoder_next.
C21_Witness ==
    /\ run.src = "bytes" /\ run.input = <<148, 17, 33, 49, 65, 172>>
    /\ run.mode = "pull" /\ Len(run.returned) = 1
    /\ dec.last_type = SCTP_TYPE_INT32 /\ dec.last_size = SizeOf(4)
    /\ dec.last_value.bits = ValueOfBytes(<<17, 33, 49, 65>>)
    /\ dec.position = 5

----------------------------------------------------------------------------
\* C22: the two constructors.  sctp_decoder_init(size) gives a decoder that
\* owns a buffer of `size` bytes, which sctp_decoder_get_buffer hands out to
\* be filled; sctp_decoder_from_buffer(buffer, size) gives a decoder over the
\* given bytes, which stay as they are for as long as it decodes, and
\* sctp_decoder_get_buffer returns NULL for it.  Both start with position 0,
\* last_type EOF and last_size 0.
C22_Constructors ==
    /\ (run.mode \in {"owned", "fresh"}) =>
          /\ dec.position = 0
          /\ dec.last_type = SCTP_TYPE_EOF
          /\ dec.last_size = SizeOf(0)
          /\ dec.last_value = ZeroValue
          /\ dec.size = Len(Source) /\ Len(dec.data) = dec.size
    /\ run.mode = "owned" =>
          /\ ~dec.is_external_buffer
          /\ sctp_decoder_get_buffer(dec) = DataPtr(0)
    /\ (run.mode \in {"fresh", "pull", "run"}) =>
          /\ dec.data = Source /\ dec.addr = BufferAt(Source).addr
          /\ dec.is_external_buffer <=> sctp_decoder_get_buffer(dec) = NullPtr
          /\ ~dec.is_external_buffer <=> sctp_decoder_get_buffer(dec) = DataPtr(0)

\* A decoder made by sctp_decoder_init whose buffer was filled and decoded,
\* and one made by sctp_decoder_from_buffer on the same bytes.
C22_WitnessOwned ==
    /\ run.mode = "pull" /\ ~dec.is_external_buffer
    /\ run.input = <<172, 45, 104, 105>> /\ dec.data = run.input
    /\ Len(run.returned) = 2 /\ dec.position = 4

C22_Witness ==
    /\ run.mode = "pull" /\ dec.is_external_buffer
    /\ run.input = <<172, 45, 104, 105>> /\ dec.data = run.input
    /\ Len(run.returned) = 2 /\ dec.position = 4

----------------------------------------------------------------------------
\* C23: EOF is absorbing in the pull model.  Once a sctp_decoder_next call
\* has returned EOF, every later call returns EOF again (it neither returns
\* a field nor aborts on one).
C23_EofAbsorbing ==
    run.mode = "pull" =>
        /\ \A i, j \in 1..Len(run.returned) :
              (i < j /\ run.returned[i].ret = SCTP_TYPE_EOF) =>
                  /\ run.returned[j].ret = SCTP_TYPE_EOF
                  /\ run.returned[j].last_type = SCTP_TYPE_EOF
        /\ (\E i \in 1..Len(run.returned) : run.returned[i].ret = SCTP_TYPE_EOF) =>
              run.pc = "ready"

\* The part that holds: EOF returned on an exhausted buffer stays EOF.  A
\* call on an exhausted buffer reads no header, so such calls were made
\* exactly when more calls returned than headers were read.
C23_ExhaustedStaysEof ==
    (run.mode = "pull" /\ Len(run.returned) > Len(run.headers)) =>
        /\ run.pc = "ready"
        /\ dec.position >= dec.size
        /\ \A k \in (Len(run.headers) + 1)..Len(run.returned) :
              /\ run.returned[k].ret = SCTP_TYPE_EOF
              /\ run.returned[k].last_type = SCTP_TYPE_EOF
              /\ run.returned[k].last_size = SizeOf(0)

----------------------------------------------------------------------------
\* A step of an encoder operation: a field was added, or the operation
\* aborted.  (The caller's copy into the span that sctp_encoder_add_vector
\* returned is the writing of that vector, not an operation of the encoder.)
EncoderStep == Len(added') # Len(added) \/ enc'.status # enc.status

Retains == /\ enc'.position >= enc.position
           /\ \A i \in 1..enc.position :
                 i \in DOMAIN enc.buffer => enc'.buffer[i] = enc.buffer[i]

\* C24: the encoder is append-only.  No add operation lowers the write
\* position, and none changes a byte at an offset below the position held
\* before it.
C24_AppendOnly == [][EncoderStep => Retains]_vars

\* The same for the operations that were not asked for a length of 2^16 or
\* more.
C24_ShortLengths ==
    [][(EncoderStep /\ \A b \in enc'.span.len : b < 16) => Retains]_vars

----------------------------------------------------------------------------
\* The field the decoder held before the call that aborted: the one stored
\* by the last call that returned, or the state after construction.
StoredBefore ==
    IF run.returned = <<>>
    THEN [last_type |-> SCTP_TYPE_EOF, last_value |-> ZeroValue, last_size |-> SizeOf(0)]
    ELSE LET r == run.returned[Len(run.returned)]
         IN  [last_type |-> r.last_type, last_value |-> r.last_value,
              last_size |-> r.last_size]

\* C25: when sctp_decoder_next aborts on a malformed field, last_type,
\* last_value and last_size of the decoder are those of the last field
\* decoded successfully.
C25_FailedStepKeepsField ==
    (run.mode = "pull" /\ run.pc = "aborted") =>
        /\ dec.last_type = StoredBefore.last_type
        /\ dec.last_value = StoredBefore.last_value
        /\ dec.last_size = StoredBefore.last_size

\* The part that holds: the value is kept, and the type stored is that of
\* the header of the failing field.
C25_ValueKept ==
    (run.mode = "pull" /\ run.pc = "aborted") =>
        /\ dec.last_value = StoredBefore.last_value
        /\ dec.last_type = HeaderTypeAt(run.headers[Len(run.headers)])

----------------------------------------------------------------------------
AddAborts(kind) == enc.status = "ok" /\ enc'.status = "aborted" /\ enc'.err = kind

\* C26: an add operation that aborts with CapacityExceeded leaves the
\* position and the buffer contents as they were before the operation.
C26_FailedAddAtomic ==
    [][AddAborts("CapacityExceeded") =>
          enc'.position = enc.position /\ enc'.buffer = enc.buffer]_vars

\* The part that holds: the aborted operation leaves what was written
\* before it, and an add refused for its argument writes nothing.
C26_FailedAddKeepsOutput ==
    [][/\ AddAborts("CapacityExceeded") => Retains
       /\ AddAborts("InvalidArgument") =>
             enc'.position = enc.position /\ enc'.buffer = enc.buffer]_vars

----------------------------------------------------------------------------
\* The bit positions of the sum over the first n bytes of w of
\* (byte_i & 0x7F) * 2^(7 * i), i counted from 0: the groups do not overlap,
\* so the sum has the bits of each group moved up by 7 * i.
GroupSum(w, n) ==
    UNION {{7 * (i - 1) + b : b \in BitsOfNat(w[i] % 128, 7)} : i \in 1..n}

\* C27: a value returned by the ULEB128 reader is the sum of the 7-bit
\* groups of the consumed bytes, and an encoding whose groups up to the
\* terminating byte carry a bit at position 64 or above is rejected with
\* Overflow.
C27_UlebNoBitLoss ==
    (leb.stage = "decoded" /\ ~leb.signed) =>
        /\ leb.st = "ok" => leb.value = GroupSum(leb.wire, leb.used)
        /\ LET n == ContRun(leb.wire) + 1
           IN  (n <= Len(leb.wire) /\ \E b \in GroupSum(leb.wire, n) : b >= W64) =>
                   leb.st = "Overflow"

\* The part that holds: the value returned has the bits of the sum below
\* position 64.
C27_UlebLowBits ==
    (leb.stage = "decoded" /\ ~leb.signed /\ leb.st = "ok") =>
        leb.value = {b \in GroupSum(leb.wire, leb.used) : b < W64}

----------------------------------------------------------------------------
\* The k-th header read, and the offset of what was read after its field.
HeaderByte(k) == dec.data[run.headers[k] + 1]
OffsetAfter(k) == IF k < Len(run.headers) THEN run.headers[k + 1] ELSE dec.position

\* The headers whose field the decoder went on to decode: all of them,
\* but for the one at which a run was found to repeat itself.
DecodedHeaders == IF run.pc = "diverges" THEN Len(run.headers) - 1 ELSE Len(run.headers)

IsHeaderOf(k, type) == k <= Len(run.headers) /\ HeaderByte(k) % 16 = type

\* C28: a decoded SHORT has the metadata nibble of its header as its value,
\* takes one byte of the buffer and is reported with size 1: in last_size by
\* sctp_decoder_next and in the size argument of the handler by both
\* sctp_decoder_run.
C28_ShortSize ==
    /\ run.mode = "pull" =>
          \A k \in 1..Len(run.returned) :
              IsHeaderOf(k, SCTP_TYPE_SHORT) =>
                  /\ run.returned[k].ret = SCTP_TYPE_SHORT
                  /\ run.returned[k].last_type = SCTP_TYPE_SHORT
                  /\ run.returned[k].last_size = SizeOf(1)
                  /\ {b \in run.returned[k].last_value.bits : b < 8}
                        = BitsOfNat(HeaderByte(k) \div 16, 8)
                  /\ OffsetAfter(k) = run.headers[k] + 1
    /\ (run.mode \in {"run", "run_g"}) =>
          \A k \in 1..Len(run.calls) :
              IsHeaderOf(k, SCTP_TYPE_SHORT) =>
                  /\ run.calls[k].type = SCTP_TYPE_SHORT
                  /\ run.calls[k].size = SizeOf(1)
                  /\ run.calls[k].bytes = <<HeaderByte(k) \div 16>>
                  /\ OffsetAfter(k) = run.headers[k] + 1
    /\ (run.mode \in {"pull", "run", "run_g"}) =>
          \A k \in 1..DecodedHeaders :
              (HeaderByte(k) % 16 = SCTP_TYPE_SHORT) =>
                  k <= Len(IF run.mode = "pull" THEN run.returned ELSE run.calls)

\* SHORT 3 and SHORT 10 were handed to the handler by the sctp_decoder_run
\* of src/decoder.c.
C28_Witness ==
    /\ run.mode = "run_g" /\ run.input = <<60, 172>>
    /\ Len(run.calls) = 2
    /\ run.calls[1].type = SCTP_TYPE_SHORT /\ run.calls[1].bytes = <<3>>
    /\ run.calls[1].size = SizeOf(1)
    /\ dec.position = 2

----------------------------------------------------------------------------
\* The bytes behind the k-th header read, and the length on the wire of the
\* LEB128 value they start with.
BehindHeader(k) == SubSeq(dec.data, run.headers[k] + 2, Len(dec.data))
LebLength(k) == ContRun(BehindHeader(k)) + 1

\* The 64-bit value of the LEB128 bytes behind the k-th header: the groups
\* at their bit positions, for SLEB128 with the sign bit of the last group
\* carried up to bit 63.
LebValueAt(k) ==
    LET w == BehindHeader(k)
        n == LebLength(k)
        low == {b \in GroupSum(w, n) : b < W64}
    IN  IF HeaderByte(k) % 16 = SCTP_TYPE_SLEB128 /\ (w[n] \div 64) % 2 = 1 /\ 7 * n < W64
        THEN low \cup ((7 * n)..(W64 - 1))
        ELSE low

IsLebHeader(k) ==
    k <= Len(run.headers) /\ (HeaderByte(k) % 16) \in {SCTP_TYPE_ULEB128, SCTP_TYPE_SLEB128}

\* C29: a ULEB128 or SLEB128 field of 1 to 10 bytes on the wire is reported
\* with size 8 and with its decoded 64-bit value (in last_value, resp. in
\* eight bytes of a value that is not part of the buffer), and the cursor
\* moves on by 1 plus the number of LEB128 bytes.
C29_LebSurfaced ==
    /\ run.mode = "pull" =>
          \A k \in 1..Len(run.returned) :
              IsLebHeader(k) =>
                  /\ run.returned[k].ret = HeaderByte(k) % 16
                  /\ run.returned[k].last_size = SizeOf(8)
                  /\ run.returned[k].last_value.bits = LebValueAt(k)
                  /\ OffsetAfter(k) = run.headers[k] + 1 + LebLength(k)
    /\ (run.mode \in {"run", "run_g"}) =>
          \A k \in 1..Len(run.calls) :
              IsLebHeader(k) =>
                  /\ run.calls[k].type = HeaderByte(k) % 16
                  /\ run.calls[k].size = SizeOf(8)
                  /\ run.calls[k].ptr.base # "data"
                  /\ run.calls[k].bytes = BytesOfValue(LebValueAt(k), 8)
                  /\ OffsetAfter(k) = run.headers[k] + 1 + LebLength(k)
    /\ (run.mode \in {"pull", "run", "run_g"}) =>
          \A k \in 1..DecodedHeaders :
              (/\ IsLebHeader(k)
               /\ LebLength(k) <= Len(BehindHeader(k))
               /\ LebLength(k) <= ShiftLimit) =>
                  k <= Len(IF run.mode = "pull" THEN run.returned ELSE run.calls)

\* A SLEB128 of ten bytes on the wire was decoded by sctp_decoder_next.
C29_Witness ==
    /\ run.mode = "pull"
    /\ run.input = <<SCTP_TYPE_SLEB128>> \o Repeat(255, 9) \o <<127, 172>>
    /\ Len(run.returned) = 1
    /\ dec.last_size = SizeOf(8) /\ dec.last_value.bits = AllOnes64
    /\ dec.position = 11

----------------------------------------------------------------------------
\* A step of an add operation that got as far as its header: the argument
\* was accepted and the buffer had room for a byte.
WritesHeader ==
    EncoderStep /\ ~AddAborts("InvalidArgument") /\ enc.position < enc.capacity

\* C30: the header byte an add operation writes has a type nibble other
\* than the reserved 14 and a metadata nibble of 0, but for SHORT, where it
\* is the value (0..15), and VECTOR, where it is the length (0..14) or 15
\* for a length of 15 and more; it is the header of the field added.
C30_HeaderValid ==
    [][WritesHeader =>
          LET header == enc'.buffer[enc.position + 1]
              type == header % 16
              meta == header \div 16
          IN  /\ header \in 0..255
              /\ type # 14
              /\ type \notin {SCTP_TYPE_SHORT, SCTP_TYPE_VECTOR} => meta = 0
              /\ Len(added') > Len(added) =>
                    LET f == added'[Len(added')]
                    IN  /\ type = f.type
                        /\ type = SCTP_TYPE_SHORT => BitsOfNat(meta, 8) = f.value
                        /\ type = SCTP_TYPE_VECTOR =>
                              IF SizeGt(f.size, 14) THEN meta = SCTP_VECTOR_LARGE_FLAG
                              ELSE meta = NatOfBits(f.size)]_vars

\* SHORT 15 and a vector of 20 bytes were added.
C30_Witness ==
    /\ enc.status = "ok" /\ enc.position = 23
    /\ enc.buffer[1] = 252 /\ enc.buffer[2] = 253 /\ enc.buffer[3] = 20
    /\ Len(added) = 2 /\ added[1].type = SCTP_TYPE_SHORT /\ added[2].type = SCTP_TYPE_VECTOR

====
